---- MODULE Spec2Model ----
(***************************************************************************)
(* Angler's Pulse: the daily weather cache (weatherService.ts, kept in     *)
(* src/unnamed/part_001) and the forecast orchestrator                    *)
(* (src/services/solunarService.ts) as a state machine.                   *)
(*                                                                         *)
(* Time is a tick counter (Date.now()); a local calendar day is            *)
(* TicksPerDay ticks.  A Date at local midnight is a day number counted    *)
(* from 1 January of BaseYear.  A date string "YYYY-MM-DD" is the triple   *)
(* <<yyyy, mm, dd>> of its three zero-padded fields.                       *)
(***************************************************************************)
EXTENDS Integers, Sequences, FiniteSets, TLC

\* ------------ Config (part_001:38-45) ------------
SHORT_TERM_DAYS == 16
PAST_DAYS == 7
FUTURE_DAYS == 60
PRESSURE_TREND_EPS == 1

\* ------------ Bounds of the model ------------
BaseYear == 2024
LastYear == 2025
TicksPerDay == 2
ClockSpan == 2
MaxCalls == 2

Years == BaseYear..LastYear
Months == 1..12
\* The (month, year) pairs a forecast is asked for: February and December of
\* the first and of the last year.  They lie before the cached window (one of
\* them in a leap year), across its start, across its end and after it.
RequestList == <<<<2, BaseYear>>, <<12, BaseYear>>, <<2, LastYear>>, <<12, LastYear>>>>
Requests == {RequestList[i] : i \in 1..Len(RequestList)}
Callers == {1, 2}

\* ------------ Calendar (what the JS Date object computes) ------------
IsLeap(y) == (y % 4 = 0 /\ y % 100 # 0) \/ y % 400 = 0

DaysInMonth(y, m) ==
  IF m \in {4, 6, 9, 11} THEN 30
  ELSE IF m = 2 THEN (IF IsLeap(y) THEN 29 ELSE 28)
  ELSE 31

DaysInYear(y) == IF IsLeap(y) THEN 366 ELSE 365

RECURSIVE DaysBeforeYear(_)
DaysBeforeYear(y) == IF y <= BaseYear THEN 0 ELSE DaysBeforeYear(y - 1) + DaysInYear(y - 1)

RECURSIVE DaysBeforeMonth(_, _)
DaysBeforeMonth(y, m) == IF m <= 1 THEN 0 ELSE DaysBeforeMonth(y, m - 1) + DaysInMonth(y, m - 1)

\* new Date(year, monthIndex, day): monthIndex is 0-based, day 0 is the last
\* day of the month before (part_001:168-169).
NewDate(year, monthIndex, day) == DaysBeforeYear(year) + DaysBeforeMonth(year, monthIndex + 1) + day - 1

RECURSIVE YearOf(_, _)
YearOf(n, y) == IF n < DaysInYear(y) THEN y ELSE YearOf(n - DaysInYear(y), y + 1)

RECURSIVE MonthOf(_, _, _)
MonthOf(n, y, m) == IF n < DaysInMonth(y, m) THEN m ELSE MonthOf(n - DaysInMonth(y, m), y, m + 1)

\* getFullYear / getMonth (0-based) / getDate of the Date at day number n.
getFullYear(n) == YearOf(n, BaseYear)
getMonth(n) == MonthOf(n - DaysBeforeYear(getFullYear(n)), getFullYear(n), 1) - 1
getDate(n) == n - NewDate(getFullYear(n), getMonth(n), 1) + 1

\* toDateStr (part_001:339-344): the three padded fields.
toDateStr(n) == <<getFullYear(n), getMonth(n) + 1, getDate(n)>>

\* A sequence given by a rule, as the tuple of its elements.
Tuple(s) == SelectSeq(s, LAMBDA x : TRUE)

\* The date strings of the days the model can name, computed once:
\* DateStr(n) is toDateStr of the Date at day number n.
LastDayNum == DaysBeforeYear(LastYear + 2)
DateStrs == Tuple([i \in 1..(LastDayNum + 1) |-> toDateStr(i - 1)])
DateStr(n) == DateStrs[n + 1]

\* The page is loaded on 28 December of BaseYear.
FirstTick == (DaysBeforeYear(BaseYear) + DaysBeforeMonth(BaseYear, 12) + 27) * TicksPerDay
MaxTick == FirstTick + ClockSpan

\* new Date(ms) for a tick count: the local day it falls on.
DayOf(t) == t \div TicksPerDay

stripTime(t) == NewDate(getFullYear(DayOf(t)), getMonth(DayOf(t)), getDate(DayOf(t)))
addDays(d, days) == d + days
minDate(a, b) == IF a <= b THEN a ELSE b

\* ------------ Open-Meteo responses ------------
\* A value that may be null or undefined is a sequence of length 0 or 1.
Null == << >>
Some(x) == <<x>>
EmptyMap == << >>

\* An array element of the response is Some(number), or NotANumber
\* (undefined, null, NaN).
NotANumber == Null
isFiniteNum(x) == x # NotANumber

SourceKinds == <<"archive", "forecast", "seasonal">>

\* The hourly block a server may send for a request start..end.  Version 1 is
\* a complete answer: two samples for every requested day, and one more
\* timestamp on the day after the range.  Version 2 is a partial answer: one
\* sample per day, the first and the last requested day missing, no pressure
\* array and one non-finite temperature.  A temperature is kept to one
\* decimal, t standing for t / 10: the samples of a day of version 1 end in
\* .4 and in .5, those of version 2 are -3.4.
HourlyDays(v, start, end) ==
  IF v = 1 THEN Tuple([i \in 1..(2 * (end - start + 1) + 1) |-> start + ((i - 1) \div 2)])
  ELSE Tuple([i \in 1..(IF end - start >= 2 THEN end - start - 1 ELSE 0) |-> start + i])

HourlyBlock(v, start, end) ==
  LET days == HourlyDays(v, start, end)
      n == Len(days)
  IN  IF v = 1
      THEN [time |-> Tuple([i \in 1..n |-> <<DateStr(days[i]), 12 * ((i - 1) % 2)>>]),
            temperature_2m |-> Tuple([i \in 1..n |-> Some(10 * (6 + 5 * ((i - 1) % 2) + (days[i] % 4))
                                                              + 4 - 9 * ((i - 1) % 2))]),
            pressure_msl |-> Tuple([i \in 1..n |-> Some(1005 + 4 * (days[i] % 3) + ((i - 1) % 2))]),
            wind_speed_10m |-> Tuple([i \in 1..n |-> Some(9 + 4 * ((i - 1) % 2))]),
            wind_direction_10m |-> Tuple([i \in 1..n |-> Some(90 * ((i - 1) % 2))]),
            weather_code |-> Tuple([i \in 1..n |-> Some(IF days[i] % 5 = 0 THEN 61 ELSE (i - 1) % 2)])]
      ELSE [time |-> Tuple([i \in 1..n |-> <<DateStr(days[i]), 0>>]),
            temperature_2m |-> Tuple([i \in 1..n |-> IF i = 2 THEN NotANumber ELSE Some(0 - 34)]),
            pressure_msl |-> << >>,
            wind_speed_10m |-> Tuple([i \in 1..n |-> Some(20)]),
            wind_direction_10m |-> Tuple([i \in 1..n |-> Some(180)]),
            weather_code |-> Tuple([i \in 1..n |-> Some(IF i % 2 = 0 THEN 95 ELSE 61)])]

Versions == {1, 2}

\* The versions each server sends: the seasonal server partial answers, the
\* archive and the forecast server complete ones.
VersionsOf(source) == IF source = "seasonal" THEN {2} ELSE {1}

\* What awaiting fetch(url) and res.json() can give: the request fails, the
\* status is not ok, the hourly block is missing or empty, or a block arrives.
Responses(source) ==
  {[kind |-> k, v |-> 0] : k \in {"neterr", "http", "nohourly"}}
    \cup {[kind |-> "ok", v |-> v] : v \in VersionsOf(source)}

\* ------------ math utils (part_001:385-403) ------------
RECURSIVE SumSeq(_)
SumSeq(s) == IF s = << >> THEN 0 ELSE Head(s) + SumSeq(Tail(s))

RECURSIVE max(_)
max(s) == IF Len(s) = 1 THEN s[1] ELSE LET m == max(Tail(s)) IN IF s[1] > m THEN s[1] ELSE m

RECURSIVE min(_)
min(s) == IF Len(s) = 1 THEN s[1] ELSE LET m == min(Tail(s)) IN IF s[1] < m THEN s[1] ELSE m

\* Math.round(mean(arr)) for integer samples: floor(sum/len + 1/2).
RoundMean(s) == (2 * SumSeq(s) + Len(s)) \div (2 * Len(s))

\* Math.round of a number of one decimal, t standing for t / 10:
\* floor(t / 10 + 1/2).
MathRoundTenths(t) == (2 * t + 10) \div 20

\* ------------ Math (sin, cos, acos on numbers of four decimals) ------------
\* A JS number that is not an integer is kept to four decimals: x stands for
\* x / Unit.
Unit == 10000

\* The decimal literal 0.dd of the source.
Hundredths(n) == n * (Unit \div 100)

Minimum(a, b) == IF a <= b THEN a ELSE b
Maximum(a, b) == IF a >= b THEN a ELSE b

Abs(x) == IF x < 0 THEN 0 - x ELSE x

Pi == 31416

\* a / b rounded to the nearest integer, for b > 0.
RoundDiv(a, b) == (2 * a + b) \div (2 * b)

\* The product of two numbers of four decimals.
MulU(a, b) == RoundDiv(a * b, Unit)

\* Math.sin: the angle is brought into [-pi/2, pi/2] and the Taylor series is
\* summed up to the term of degree 9; the result lies in [-1, 1].
Sin(x) ==
  LET y == ((x + Pi) % (2 * Pi)) - Pi
      z == IF 2 * y > Pi THEN Pi - y ELSE IF 2 * y < 0 - Pi THEN 0 - Pi - y ELSE y
      z2 == MulU(z, z)
      t4 == Unit - RoundDiv(z2, 72)
      t3 == Unit - RoundDiv(MulU(z2, t4), 42)
      t2 == Unit - RoundDiv(MulU(z2, t3), 20)
      t1 == Unit - RoundDiv(MulU(z2, t2), 6)
  IN  Maximum(0 - Unit, Minimum(Unit, MulU(z, t1)))

\* Math.cos
Cos(x) == Sin(x + Pi \div 2)

\* Math.acos on [-1, 1]: the angle of [0, pi] whose cosine is c, by bisection.
RECURSIVE AcosBetween(_, _, _)
AcosBetween(c, lo, hi) ==
  IF hi - lo <= 1 THEN lo
  ELSE LET mid == (lo + hi) \div 2
       IN  IF Cos(mid) > c THEN AcosBetween(c, mid, hi) ELSE AcosBetween(c, lo, mid)

Acos(c) == IF c >= Unit THEN 0 ELSE IF c <= 0 - Unit THEN Pi ELSE AcosBetween(c, 0, Pi)

\* ------------ conditions & wind helpers (part_001:303-335) ------------
\* A classification that looks for rain before it looks for a storm.
RainBeforeStorm(codes) ==
  LET has(S) == \E i \in 1..Len(codes) : codes[i] \in S
  IN  IF has({51, 53, 55, 56, 57, 61, 63, 65, 66, 67, 80, 81, 82}) THEN "Rainy"
      ELSE IF has({95, 96, 99}) THEN "Stormy"
      ELSE IF has({71, 73, 75, 77, 85, 86}) THEN "Snowy"
      ELSE IF has({45, 48}) THEN "Foggy"
      ELSE IF has({1, 2, 3}) THEN "Cloudy"
      ELSE "Clear"

codesToCondition(codes) ==
  LET has(S) == \E i \in 1..Len(codes) : codes[i] \in S
  IN  IF has({95, 96, 99}) THEN "Stormy"
      ELSE IF has({71, 73, 75, 77, 85, 86}) THEN "Snowy"
      ELSE IF has({51, 53, 55, 56, 57, 61, 63, 65, 66, 67, 80, 81, 82}) THEN "Rainy"
      ELSE IF has({45, 48}) THEN "Foggy"
      ELSE IF has({1, 2, 3}) THEN "Cloudy"
      ELSE "Clear"

\* Math.cos and Math.sin of (d * Math.PI) / 180.
CosDeg(d) == Cos(RoundDiv(d * Pi, 180))
SinDeg(d) == Sin(RoundDiv(d * Pi, 180))

\* The angle of [0, pi/4] whose tangent is a / b, for 0 <= a <= b, by
\* bisection; exact where the tangent is 0 or 1.
RECURSIVE AtanBetween(_, _, _, _)
AtanBetween(a, b, lo, hi) ==
  IF hi - lo <= 1 THEN lo
  ELSE LET mid == (lo + hi) \div 2
       IN  IF Sin(mid) * b <= Cos(mid) * a THEN AtanBetween(a, b, mid, hi)
           ELSE AtanBetween(a, b, lo, mid)

\* That angle in hundredths of a degree.
OctantDegrees(a, b) ==
  IF a = 0 THEN 0
  ELSE IF a = b THEN 4500
  ELSE RoundDiv(AtanBetween(a, b, 0, (Pi \div 4) + 1) * 18000, Pi)

\* (Math.atan2(y, x) * (180 / Math.PI) + 360) % 360 in hundredths of a degree,
\* from the angle between the vector and the nearer half of the x axis.
TurnedDegrees(y, x, alpha) ==
  IF y >= 0 THEN (IF x >= 0 THEN alpha ELSE 18000 - alpha)
  ELSE (IF x < 0 THEN 18000 + alpha ELSE (36000 - alpha) % 36000)

Atan2Degrees(y, x) ==
  TurnedDegrees(y, x,
                IF Abs(y) <= Abs(x) THEN OctantDegrees(Abs(y), Abs(x))
                ELSE 9000 - OctantDegrees(Abs(x), Abs(y)))

\* The arithmetic mean of the angles.
ArithmeticMeanDegrees(degs) == (SumSeq(degs) * 100) \div Len(degs)

\* vectorMeanDegrees, in hundredths of a degree.
vectorMeanDegrees(degs) ==
  Atan2Degrees(SumSeq([i \in 1..Len(degs) |-> SinDeg(degs[i])]),
               SumSeq([i \in 1..Len(degs) |-> CosDeg(degs[i])]))

Cardinals == <<"N", "NE", "E", "SE", "S", "SW", "W", "NW">>

\* dirs[Math.round(deg / 45) % 8] for deg in hundredths of a degree.
degreesToCardinal(deg) == Cardinals[(((2 * deg + 4500) \div 9000) % 8) + 1]

\* ------------ Core fetch + aggregation (part_001:186-272) ------------
\* The outcome of a call that may throw.
Threw == [ok |-> FALSE, val |-> EmptyMap]
Returned(x) == [ok |-> TRUE, val |-> x]

\* arr[i], undefined past the end of the array.
At(arr, i) == IF i \in 1..Len(arr) THEN arr[i] ELSE NotANumber

\* A trend whose thresholds are inclusive.
TrendInclusive(pressure, prevPressure) ==
  IF prevPressure = Null THEN "steady"
  ELSE IF pressure - prevPressure[1] >= PRESSURE_TREND_EPS THEN "rising"
  ELSE IF pressure - prevPressure[1] <= 0 - PRESSURE_TREND_EPS THEN "falling"
  ELSE "steady"

\* The pressureTrend of a day (part_001:243-248).
pressureTrend(pressure, prevPressure) ==
  IF prevPressure = Null THEN "steady"
  ELSE LET delta == pressure - prevPressure[1]
       IN  IF delta > PRESSURE_TREND_EPS THEN "rising"
           ELSE IF delta < 0 - PRESSURE_TREND_EPS THEN "falling"
           ELSE "steady"

\* A tempHigh that drops the decimals of the highest sample (Math.floor).
HighTruncated(temps) == IF Len(temps) > 0 THEN max(temps) \div 10 ELSE 0

\* tempHigh of a day from its finite temperature samples (part_001:236-238).
tempHigh(temps) == IF Len(temps) > 0 THEN MathRoundTenths(max(temps)) ELSE 0

\* The WeatherInfo of one bucket (part_001:234-265).
AggregateDay(hourly, idxs, prevPressure) ==
  LET finite(arr) == SelectSeq(Tuple([j \in 1..Len(idxs) |-> At(arr, idxs[j])]), isFiniteNum)
      pick(arr) == Tuple([j \in 1..Len(finite(arr)) |-> finite(arr)[j][1]])
      temps == pick(hourly.temperature_2m)
      pressures == pick(hourly.pressure_msl)
      winds == pick(hourly.wind_speed_10m)
      dirs == pick(hourly.wind_direction_10m)
      codes == pick(hourly.weather_code)
      pressure == IF Len(pressures) > 0 THEN RoundMean(pressures)
                  ELSE IF prevPressure # Null THEN prevPressure[1] ELSE 1013
  IN  [tempHigh |-> tempHigh(temps),
       tempLow |-> IF Len(temps) > 0 THEN MathRoundTenths(min(temps)) ELSE 0,
       pressure |-> pressure,
       pressureTrend |-> pressureTrend(pressure, prevPressure),
       windSpeed |-> IF Len(winds) > 0 THEN RoundMean(winds) ELSE 0,
       windDirection |-> IF Len(dirs) > 0 THEN degreesToCardinal(vectorMeanDegrees(dirs)) ELSE "N",
       conditions |-> IF Len(codes) > 0 THEN codesToCondition(codes) ELSE "Clear"]

\* bucket by YYYY-MM-DD (part_001:213-217): the indices of each date, in order.
Buckets(time) ==
  LET keys == {time[i][1] : i \in 1..Len(time)}
      all == Tuple([i \in 1..Len(time) |-> i])
  IN  [k \in keys |-> SelectSeq(all, LAMBDA i : time[i][1] = k)]

\* The while loop over dayCursor (part_001:226-269), with the running
\* prevPressure of this segment; out collects the days.
\* A loop that aggregates every bucket of the response, whatever its date.
AggregateEveryBucket(hourly, buckets, dayCursor, end, prevPressure, out) ==
  [k \in DOMAIN buckets |-> AggregateDay(hourly, buckets[k], Null)] @@ out

RECURSIVE AggregateFrom(_, _, _, _, _, _)
AggregateFrom(hourly, buckets, dayCursor, end, prevPressure, out) ==
  IF dayCursor > end \/ DOMAIN out # DOMAIN out \/ Len(prevPressure) > 1 THEN out
  ELSE LET k == DateStr(dayCursor)
       IN  IF k \notin DOMAIN buckets
           THEN AggregateFrom(hourly, buckets, dayCursor + 1, end, prevPressure, out)
           ELSE LET info == AggregateDay(hourly, buckets[k], prevPressure)
                IN  AggregateFrom(hourly, buckets, dayCursor + 1, end, Some(info.pressure), (k :> info) @@ out)

\* fetchAndAggregateDaily: Threw when fetch rejects, the status is not ok or
\* the hourly block has no timestamps; otherwise the aggregated days.
fetchAndAggregateDaily(source, start, end, resp) ==
  IF resp.kind # "ok" THEN Threw
  ELSE LET hourly == HourlyBlock(resp.v, start, end)
       IN  IF Len(hourly.time) = 0 THEN Threw
           ELSE Returned(AggregateFrom(hourly, Buckets(hourly.time), start, end, Null, EmptyMap))

\* ------------ fillMissingDays (part_001:364-383) ------------
DefaultWeather ==
  [tempHigh |-> 20, tempLow |-> 12, pressure |-> 1013, pressureTrend |-> "steady",
   windSpeed |-> 5, windDirection |-> "NW", conditions |-> "Clear"]

\* A pass that never copies the last value.
FillWithDefault(s, cur) ==
  LET k == DateStr(cur)
  IN  IF k \in DOMAIN s.map THEN [map |-> s.map, last |-> Some(s.map[k])]
      ELSE [map |-> (k :> DefaultWeather) @@ s.map, last |-> s.last]

\* One pass of the while loop (part_001:368-382), for the day cur: the map
\* and last after it.
FillDay(s, cur) ==
  LET k == DateStr(cur)
  IN  IF k \in DOMAIN s.map THEN [map |-> s.map, last |-> Some(s.map[k])]
      ELSE IF s.last # Null THEN [map |-> (k :> s.last[1]) @@ s.map, last |-> s.last]
      ELSE [map |-> (k :> DefaultWeather) @@ s.map, last |-> s.last]

\* The passes for the days cur..end, in order (the range is halved, and s is
\* evaluated on entry, to keep the evaluation shallow).
RECURSIVE FillFrom(_, _, _)
FillFrom(s, cur, end) ==
  IF cur > end \/ s.last # s.last THEN s
  ELSE IF cur = end THEN FillDay(s, cur)
  ELSE FillFrom(FillFrom(s, cur, (cur + end) \div 2), ((cur + end) \div 2) + 1, end)

\* A gap filling that fills nothing.
LeaveGaps(map, start, end) == map

fillMissingDays(map, start, end) == FillFrom([map |-> map, last |-> Null], start, end).map

\* Object.assign(out, map): the keys of map overwrite those of out.
ObjectAssign(out, map) == map @@ out

\* ------------ Locations and the persisted store ------------
\* Coordinates are in thousandths of a degree.
Locations ==
  {[latitude |-> 45267, longitude |-> 19834],
   [latitude |-> 0 - 4, longitude |-> 19826]}

CACHE_PREFIX == "angler_weather_daily_v1_"


\* Number.toFixed(2): the sign and the value rounded to hundredths
\* ((-0.004).toFixed(2) is "-0.00").
toFixed2(x) == [neg |-> x < 0, centi |-> (Abs(x) + 5) \div 10]

\* getDailyCacheKey (part_001:48-52)
getDailyCacheKey(location) ==
  [prefix |-> CACHE_PREFIX, lat |-> toFixed2(location.latitude), lon |-> toFixed2(location.longitude)]

WeatherKeys == {getDailyCacheKey(l) : l \in Locations}

\* A key of the same localStorage that belongs to other code.
ForeignKey == [prefix |-> "theme", lat |-> toFixed2(0), lon |-> toFixed2(0)]

\* A stored string: not JSON ("bad"), the empty string, the JSON text null,
\* or the JSON text of an object with the fields it carries.
RawText(kind) == [json |-> kind, fetchedAt |-> Null, rangeStart |-> Null, rangeEnd |-> Null, data |-> Null]
ForeignItem == RawText("bad")

\* JSON.stringify(entry) of a WeatherCacheEntry (part_001:143-149).
JSONstringify(entry) ==
  [json |-> "obj", fetchedAt |-> Some(entry.fetchedAt), rangeStart |-> Some(entry.rangeStart),
   rangeEnd |-> Some(entry.rangeEnd), data |-> Some(entry.data)]

\* JSON.parse(raw): throws on text that is not JSON; null for the text null.
JSONparse(raw) ==
  IF raw.json \in {"bad", "empty"} THEN Threw
  ELSE IF raw.json = "null" THEN Returned(Null)
  ELSE Returned(Some([fetchedAt |-> raw.fetchedAt, rangeStart |-> raw.rangeStart,
                      rangeEnd |-> raw.rangeEnd, data |-> raw.data]))

\* A validity test that accepts an entry only at the instant it was stamped.
ValidAtTheSameInstant(fetchedAt, now) == fetchedAt # Null /\ fetchedAt[1] = now

\* isCacheValidForToday (part_001:54-58); a missing fetchedAt is an invalid Date.
isCacheValidForToday(fetchedAt, now) ==
  /\ fetchedAt # Null
  /\ getFullYear(DayOf(now)) = getFullYear(DayOf(fetchedAt[1]))
  /\ getMonth(DayOf(now)) = getMonth(DayOf(fetchedAt[1]))
  /\ getDate(DayOf(now)) = getDate(DayOf(fetchedAt[1]))

\* The read of the cache (part_001:82-93): hit with parsed.data, or fall
\* through.  getItemThrows is the storage refusing the read.
ReadCache(st, cacheKey, now, getItemThrows) ==
  LET miss == [hit |-> FALSE, data |-> Null]
  IN  IF getItemThrows THEN miss
      ELSE IF cacheKey \notin DOMAIN st THEN miss
      ELSE IF st[cacheKey].json = "empty" THEN miss
      ELSE LET parsed == JSONparse(st[cacheKey])
           IN  IF ~parsed.ok THEN miss
               ELSE IF parsed.val = Null THEN miss
               ELSE IF isCacheValidForToday(parsed.val[1].fetchedAt, now)
                    THEN [hit |-> TRUE, data |-> parsed.val[1].data]
                    ELSE miss

\* cleanupOldCacheKeepOnly (part_001:60-71): the keys it collects.
RemoveList(st, keyToKeep) == {k \in DOMAIN st : k.prefix = CACHE_PREFIX /\ k # keyToKeep}

Restrict(st, keys) == [k \in keys |-> st[k]]

\* A cleanup that removes nothing.
KeepEveryKey(st, keyToKeep, throws) == st

\* The store cleanup leaves: every collected key removed, or, when the
\* storage cannot be accessed (localStorage.length throws), the store as it was.
cleanupOldCacheKeepOnly(st, keyToKeep, throws) ==
  IF throws THEN st ELSE Restrict(st, DOMAIN st \ RemoveList(st, keyToKeep))

\* A save that is lost, and a save that does not overwrite.
LoseItem(st, k, v) == st
KeepFirstItem(st, k, v) == IF k \in DOMAIN st THEN st ELSE (k :> v) @@ st

\* localStorage.setItem
setItem(st, k, v) == (k :> v) @@ st

\* ------------ fetchMonthlyWeather (part_001:161-182) ------------
\* cache is what fetchDailyWeatherCache returned: Null when it returned
\* undefined, and then cache[k] throws a TypeError.
\* The while loop of part_001:173-177 copies cache[k] for every date k of the
\* month that the cache holds.
SliceMonth(cache, start, end) ==
  [k \in {DateStr(n) : n \in start..end} \cap DOMAIN cache |-> cache[k]] @@ EmptyMap

fetchMonthlyWeather(month, year, cache) ==
  LET start == NewDate(year, month - 1, 1)
      end == NewDate(year, month, 0)
  IN  IF cache = Null THEN Threw
      ELSE Returned(fillMissingDays(SliceMonth(cache[1], start, end), start, end))

\* ------------ calculateFishingForecast (solunarService.ts:136-230) ------------
\* The weather part of the MonthlyForecast; the astronomical fields of a day
\* are functions of the date and the location alone.
calculateFishingForecast(month, year, location, monthly) ==
  IF ~monthly.ok THEN Threw
  ELSE LET weatherMap == monthly.val
           daysInMonth == getDate(NewDate(year, month, 0))
       IN  Returned([month |-> month, year |-> year,
                     days |-> [d \in 1..daysInMonth |->
                                [day |-> d,
                                 weather |-> IF <<year, month, d>> \in DOMAIN weatherMap
                                             THEN Some(weatherMap[<<year, month, d>>]) ELSE Null]]])

\* ------------ The rolling window and its segments (part_001:98-136) ------------
WindowStart(today) == addDays(today, 0 - PAST_DAYS)
WindowEnd(today) == addDays(today, FUTURE_DAYS)

Segments(today) ==
  LET start == WindowStart(today)
      end == WindowEnd(today)
      yesterday == addDays(today, 0 - 1)
      shortEnd == minDate(end, addDays(today, SHORT_TERM_DAYS - 1))
      longStart == addDays(shortEnd, 1)
  IN  (IF start <= yesterday THEN <<[source |-> "archive", start |-> start, end |-> yesterday]>> ELSE << >>)
      \o (IF today <= shortEnd THEN <<[source |-> "forecast", start |-> today, end |-> shortEnd]>> ELSE << >>)
      \o (IF longStart <= end THEN <<[source |-> "seasonal", start |-> longStart, end |-> end]>> ELSE << >>)

\* A merge that keeps only the days of the segment that came last.
KeepLatestSegment(out, fetched) == IF fetched.ok THEN fetched.val ELSE out

\* try { Object.assign(out, await fetchAndAggregateDaily(...)) } catch { warn }
SegmentOutcome(out, fetched) == IF fetched.ok THEN ObjectAssign(out, fetched.val) ELSE out

\* ------------ Daily maps, computed once ------------
\* A call learns of a segment only whether fetchAndAggregateDaily threw (0) or
\* which block it aggregated (the version).  A daily map is determined by the
\* day its call started and by what the call learned of its segments: the state
\* holds this pair, a run, in place of the map, and DailyOf(run) is the map.
Days == (DayOf(FirstTick) - 1)..DayOf(MaxTick)
TableDay(today) == today - DayOf(FirstTick) + 2
Learned == 0..2

\* AggregatedDays[TableDay(today)][i][v] is what fetchAndAggregateDaily returns
\* for segment i of the window of today when the server sends version v.
AggregatedDays ==
  Tuple([t \in 1..Cardinality(Days) |->
     LET today == DayOf(FirstTick) + t - 2
     IN  Tuple([i \in 1..Len(Segments(today)) |->
           Tuple([v \in 1..Cardinality(Versions) |->
              fetchAndAggregateDaily(Segments(today)[i].source, Segments(today)[i].start,
                                     Segments(today)[i].end, [kind |-> "ok", v |-> v])])])])

\* await fetchAndAggregateDaily(source, start, end, location) for segment i,
\* when the server answers resp.
FetchSegment(today, i, resp) ==
  IF resp.kind = "ok" THEN AggregatedDays[TableDay(today)][i][resp.v]
  ELSE fetchAndAggregateDaily(Segments(today)[i].source, Segments(today)[i].start, Segments(today)[i].end, resp)

\* What the call learns of segment i, and an answer that teaches it that.
Outcome(today, i, resp) == IF FetchSegment(today, i, resp).ok THEN resp.v ELSE 0
Answer(o) == IF o = 0 THEN [kind |-> "neterr", v |-> 0] ELSE [kind |-> "ok", v |-> o]

\* The local out after the first i segments (part_001:103-136).
RECURSIVE OutAfter(_, _, _)
OutAfter(today, got, i) ==
  IF i = 0 THEN EmptyMap
  ELSE SegmentOutcome(OutAfter(today, got, i - 1), FetchSegment(today, i, Answer(got[i])))

\* out once fillMissingDays(out, start, end) has run (part_001:139).
FilledDays ==
  Tuple([t \in 1..Cardinality(Days) |->
     LET today == DayOf(FirstTick) + t - 2
     IN  Tuple([a \in 1..Cardinality(Learned) |->
           Tuple([b \in 1..Cardinality(Learned) |->
             Tuple([c \in 1..Cardinality(Learned) |->
               fillMissingDays(OutAfter(today, <<a - 1, b - 1, c - 1>>, 3),
                               WindowStart(today), WindowEnd(today))])])])])

Run(today, got) == [today |-> today, got |-> got]
DailyOf(run) == FilledDays[TableDay(run.today)][run.got[1] + 1][run.got[2] + 1][run.got[3] + 1]

\* ------------ State ------------
VARIABLES
  clock,    \* Date.now(), in ticks
  store,    \* localStorage: key -> stored string
  pc,       \* per caller: 0 when no call runs, the number of the segment whose
            \* fetch is awaited, or Hung when that fetch will never settle
  call,     \* per caller: the locals of its running fetchDailyWeatherCache
  ev,       \* the call that started or returned in the last step
  last,     \* per cache key: the most recent call that returned
  ncalls,   \* calls started so far
  calc      \* the function applied in the last step, with its arguments and
            \* its result (the functions that touch no storage and no network)

vars == <<clock, store, pc, call, ev, last, ncalls, calc>>

\* No function has been applied.
NoCalc == [fn |-> "none"]

Hung == 0 - 1

AnyLocation == CHOOSE l \in Locations : TRUE

\* got: what the call has learned of the segments fetched so far.
\* overlap: "none" while no other call has run during this one, "same" once
\* one for the same cache key has, "other" once only calls for other keys have.
IdleCall ==
  [loc |-> AnyLocation, today |-> 0, got |-> << >>, cleanupThrew |-> FALSE, overlap |-> "none"]

NoCallYet == [state |-> "none", day |-> 0, wrote |-> FALSE, daily |-> Null]

\* What localStorage may hold under a weather key when the page loads:
\* text that is not JSON, yesterday's entry, an entry of today with a foreign
\* range around yesterday's data, an entry of today without data.
YesterdaysRun == Run(DayOf(FirstTick) - 1, <<0, 1, 0>>)

StoredYesterday ==
  JSONstringify([fetchedAt |-> FirstTick - TicksPerDay,
                 rangeStart |-> toDateStr(WindowStart(YesterdaysRun.today)),
                 rangeEnd |-> toDateStr(WindowEnd(YesterdaysRun.today)),
                 data |-> YesterdaysRun])

StoredToday ==
  JSONstringify([fetchedAt |-> FirstTick,
                 rangeStart |-> toDateStr(DayOf(FirstTick) + 1),
                 rangeEnd |-> toDateStr(DayOf(FirstTick) + 1),
                 data |-> YesterdaysRun])

StoredWithoutData == [StoredToday EXCEPT !.rangeStart = Null, !.rangeEnd = Null, !.data = Null]

Seeds == {RawText("bad"), StoredYesterday, StoredToday, StoredWithoutData}

FirstKey == getDailyCacheKey(AnyLocation)

InitStores ==
  {(ForeignKey :> ForeignItem)}
    \cup {(FirstKey :> seed) @@ (ForeignKey :> ForeignItem) : seed \in Seeds}
    \cup {[k \in WeatherKeys \cup {ForeignKey} |-> IF k = ForeignKey THEN ForeignItem ELSE StoredYesterday]}

Init ==
  /\ clock = FirstTick
  /\ store \in InitStores
  /\ pc = [c \in Callers |-> 0]
  /\ call = [c \in Callers |-> IdleCall]
  /\ ev = Null
  /\ last = [k \in WeatherKeys |-> NoCallYet]
  /\ ncalls = 0
  /\ calc = NoCalc

\* ------------ Steps ------------
\* Time passes.
Tick ==
  /\ clock < MaxTick
  /\ clock' = clock + 1
  /\ ev' = Null
  /\ UNCHANGED <<store, pc, call, last, ncalls, calc>>

\* What fetchDailyWeatherCache hands back to fetchMonthlyWeather, with how the
\* call went: cl are its locals, fetched whether it went to the network.
Return(c, cl, daily, fetched, setItemThrew) ==
  [type |-> "return", c |-> c, loc |-> cl.loc, fetched |-> fetched, daily |-> daily,
   today |-> cl.today, got |-> cl.got, getItemThrew |-> cl.cleanupThrew,
   cleanupThrew |-> cl.cleanupThrew, setItemThrew |-> setItemThrew, overlap |-> cl.overlap]

\* The record of the call that returned last under a key; a call that ran
\* beside another one leaves no record.
Remember(cl, daily, wrote) ==
  [last EXCEPT ![getDailyCacheKey(cl.loc)] =
     IF cl.overlap = "none"
     THEN [state |-> "returned", day |-> DayOf(clock), wrote |-> wrote, daily |-> daily]
     ELSE [NoCallYet EXCEPT !.state = "unknown"]]

OthersIdle(c) == \A o \in Callers \ {c} : pc[o] = 0

\* A new call runs as the first caller that has no call running.
FreeCaller(c) == pc[c] = 0 /\ \A o \in Callers : o < c => pc[o] # 0

\* The calls in flight learn that a call for cacheKey runs beside them.
Overlapped(cacheKey) ==
  [o \in Callers |->
     IF pc[o] <= 0 THEN call[o]
     ELSE IF getDailyCacheKey(call[o].loc) = cacheKey THEN [call[o] EXCEPT !.overlap = "same"]
     ELSE IF call[o].overlap = "none" THEN [call[o] EXCEPT !.overlap = "other"]
     ELSE call[o]]

\* How a call for cacheKey starts among the calls in flight.
StartOverlap(c, cacheKey) ==
  IF OthersIdle(c) THEN "none"
  ELSE IF \E o \in Callers \ {c} : pc[o] > 0 /\ getDailyCacheKey(call[o].loc) = cacheKey THEN "same"
  ELSE "other"

\* A call that finds today's entry: it returns parsed.data in the same step
\* (part_001:80-90).
CacheHit(c) ==
  \E loc \in Locations :
    LET cacheKey == getDailyCacheKey(loc)
        read == ReadCache(store, cacheKey, clock, FALSE)
        cl == [IdleCall EXCEPT !.loc = loc, !.today = stripTime(clock), !.overlap = StartOverlap(c, cacheKey)]
    IN  /\ FreeCaller(c)
        /\ ncalls < MaxCalls
        /\ read.hit
        /\ ncalls' = ncalls + 1
        /\ ev' = Some(Return(c, cl, read.data, FALSE, FALSE))
        /\ last' = Remember(cl, read.data, TRUE)
        /\ call' = Overlapped(cacheKey)
        /\ UNCHANGED <<clock, store, pc, calc>>

\* A call that finds no entry of today (or cannot read one): it purges the
\* other locations' entries and issues the first fetch (part_001:80-109),
\* which the server may never answer.  getItem and the cleanup run in the same
\* synchronous stretch: the storage is accessible to both or to neither.
CacheMiss(c) ==
  \E loc \in Locations, storageThrows \in BOOLEAN, answers \in BOOLEAN :
    LET cacheKey == getDailyCacheKey(loc)
        today == stripTime(clock)
    IN  /\ FreeCaller(c)
        /\ ncalls < MaxCalls
        /\ ~ReadCache(store, cacheKey, clock, storageThrows).hit
        /\ store' = cleanupOldCacheKeepOnly(store, cacheKey, storageThrows)
        /\ ncalls' = ncalls + 1
        /\ call' = [Overlapped(cacheKey) EXCEPT ![c] =
                      IF answers
                      THEN [IdleCall EXCEPT !.loc = loc, !.today = today, !.cleanupThrew = storageThrows,
                                            !.overlap = StartOverlap(c, cacheKey)]
                      ELSE IdleCall]
        /\ pc' = [pc EXCEPT ![c] = IF answers THEN 1 ELSE Hung]
        /\ ev' = Some([type |-> "start", c |-> c, loc |-> loc, getItemThrew |-> storageThrows,
                       cleanupThrew |-> storageThrows])
        /\ last' = [k \in WeatherKeys |->
                      IF k # cacheKey /\ last[k].state # "none" THEN [last[k] EXCEPT !.state = "unknown"]
                      ELSE last[k]]
        /\ UNCHANGED <<clock, calc>>

\* The awaited fetch of a segment that is not the last settles; the next
\* segment's fetch is issued (part_001:105-136).
SegmentDone(c) ==
  /\ pc[c] > 0
  /\ pc[c] < Len(Segments(call[c].today))
  /\ \E resp \in Responses(Segments(call[c].today)[pc[c]].source), answers \in BOOLEAN :
       /\ call' = [call EXCEPT ![c] =
                     IF answers THEN [@ EXCEPT !.got = Append(@, Outcome(call[c].today, pc[c], resp))]
                     ELSE IdleCall]
       /\ pc' = [pc EXCEPT ![c] = IF answers THEN @ + 1 ELSE Hung]
       /\ ev' = Null
       /\ UNCHANGED <<clock, store, last, ncalls, calc>>

\* The awaited fetch of the last segment settles: gaps are filled, the entry
\* is saved and the call returns (part_001:127-154).
Finish(c) ==
  /\ pc[c] > 0
  /\ pc[c] = Len(Segments(call[c].today))
  /\ \E resp \in Responses(Segments(call[c].today)[pc[c]].source), setItemThrows \in BOOLEAN :
    LET start == WindowStart(call[c].today)
        end == WindowEnd(call[c].today)
        cl == [call[c] EXCEPT !.got = Append(@, Outcome(call[c].today, pc[c], resp))]
        out == Run(cl.today, cl.got)
        entry == [fetchedAt |-> clock, rangeStart |-> toDateStr(start), rangeEnd |-> toDateStr(end), data |-> out]
    IN  /\ store' = IF setItemThrows THEN store
                    ELSE setItem(store, getDailyCacheKey(call[c].loc), JSONstringify(entry))
        /\ ev' = Some(Return(c, cl, Some(out), TRUE, setItemThrows))
        /\ last' = Remember(cl, Some(out), ~setItemThrows)
        /\ call' = [call EXCEPT ![c] = IdleCall]
        /\ pc' = [pc EXCEPT ![c] = 0]
        /\ UNCHANGED <<clock, ncalls, calc>>

Next ==
  \/ Tick
  \/ \E c \in Callers : CacheHit(c)
  \/ \E c \in Callers : CacheMiss(c)
  \/ \E c \in Callers : SegmentDone(c)
  \/ \E c \in Callers : Finish(c)

Spec == Init /\ [][Next]_vars

TypeOK ==
  /\ clock \in FirstTick..MaxTick
  /\ pc \in [Callers -> {Hung} \cup 0..3]
  /\ ncalls \in 0..MaxCalls

\* ------------ What a caller of calculateFishingForecast gets ------------
\* fetchMonthlyWeather for every run and every request, computed once.
MonthlyTable ==
  Tuple([t \in 1..Cardinality(Days) |->
     Tuple([a \in 1..Cardinality(Learned) |->
       Tuple([b \in 1..Cardinality(Learned) |->
         Tuple([c \in 1..Cardinality(Learned) |->
           Tuple([r \in 1..Len(RequestList) |->
             fetchMonthlyWeather(RequestList[r][1], RequestList[r][2],
                                 Some(FilledDays[t][a][b][c]))])])])])])

RequestIndex(month, year) == CHOOSE r \in 1..Len(RequestList) : RequestList[r] = <<month, year>>

\* await fetchMonthlyWeather(month, year, location) when fetchDailyWeatherCache
\* returned daily (solunarService.ts:142).
MonthlyWeather(month, year, daily) ==
  IF daily = Null THEN fetchMonthlyWeather(month, year, Null)
  ELSE MonthlyTable[TableDay(daily[1].today)][daily[1].got[1] + 1][daily[1].got[2] + 1][daily[1].got[3] + 1]
                   [RequestIndex(month, year)]

\* The outcome of calculateFishingForecast(month, year, location) for the
\* caller whose fetchDailyWeatherCache returned daily.
Forecast(month, year, location, daily) ==
  calculateFishingForecast(month, year, location, MonthlyWeather(month, year, daily))

\* ------------ Vocabulary of the properties ------------
HasReturned == ev # Null /\ ev[1].type = "return"
SameCalendarDay(a, b) == DateStr(DayOf(a)) = DateStr(DayOf(b))
KeyOf(e) == getDailyCacheKey(e.loc)
\* The stored text under k is a JSON object stamped on the day of t.
StampedOnDayOf(st, k, t) ==
  /\ k \in DOMAIN st
  /\ st[k].json = "obj"
  /\ st[k].fetchedAt # Null
  /\ SameCalendarDay(st[k].fetchedAt[1], t)
\* Every day of the window of the run has a WeatherInfo.
GapFree(run) ==
  \A n \in WindowStart(run.today)..WindowEnd(run.today) : DateStr(n) \in DOMAIN DailyOf(run)

\* The step is the start of a call while no other call runs: it hits (ev' is
\* its return) or misses (ev' is its start).
StartsAlone == ev' # Null /\ ncalls' = ncalls + 1 /\ \A c \in Callers : pc[c] = 0
Starts == ev' # Null /\ ncalls' = ncalls + 1
Hits(e) == e.type = "return" /\ ~e.fetched /\ pc' = pc /\ store' = store
Misses(e) == e.type = "start"

C2_SameDayEntryIsReturned ==
  [][Starts =>
       LET e == ev'[1]
       IN  (StampedOnDayOf(store, KeyOf(e), clock) /\ ~(e.type = "start" /\ e.getItemThrew))
             => Hits(e) /\ e.daily = store[KeyOf(e)].data]_vars

\* A call has just returned the data of an entry of today whose range is not
\* the window of today.
C2_Witness ==
  /\ HasReturned
  /\ ~ev[1].fetched
  /\ StampedOnDayOf(store, KeyOf(ev[1]), clock)
  /\ store[KeyOf(ev[1])].rangeStart # Some(toDateStr(WindowStart(ev[1].today)))
  /\ ev[1].daily = store[KeyOf(ev[1])].data
  /\ ev[1].daily # Null

\* ------------ C3 ------------
\* C3: whenever fetchDailyWeatherCache returns a map, by a hit or after a
\* round in which any of the segments failed, the map fetchMonthlyWeather
\* returns for any request has a WeatherInfo for every date of the month.
C3_MonthIsGapFree ==
  (HasReturned /\ ev[1].daily # Null) =>
    \A r \in Requests :
      LET monthly == MonthlyWeather(r[1], r[2], ev[1].daily)
      IN  /\ monthly.ok
          /\ \A d \in 1..DaysInMonth(r[2], r[1]) : <<r[2], r[1], d>> \in DOMAIN monthly.val

\* A round whose archive and forecast fetches failed has just returned.
C3_Witness == HasReturned /\ ev[1].fetched /\ ev[1].got = <<0, 0, 2>>

\* ------------ C4 ------------
\* C4: a round that returns has fetched every segment, whichever of them
\* failed, and every day a successful segment delivered is in the returned
\* map as delivered.
C4_FailedSegmentIsSkipped ==
  (HasReturned /\ ev[1].fetched) =>
    /\ Len(ev[1].got) = Len(Segments(ev[1].today))
    /\ \A i \in 1..Len(ev[1].got) :
         LET delivered == FetchSegment(ev[1].today, i, Answer(ev[1].got[i]))
         IN  (ev[1].got[i] # 0) =>
               /\ delivered.ok
               /\ \A k \in DOMAIN delivered.val : DailyOf(ev[1].daily[1])[k] = delivered.val[k]

\* A round whose first segment failed and whose other two delivered has
\* just returned.
C4_Witness == HasReturned /\ ev[1].fetched /\ ev[1].got = <<0, 1, 2>>

\* ------------ C5 ------------
\* C5 as claimed: whatever the storage holds and does and whatever the
\* servers answer, calculateFishingForecast resolves for every request.
C5_NeverRejects_AsClaimed ==
  HasReturned => \A r \in Requests : Forecast(r[1], r[2], ev[1].loc, ev[1].daily).ok

\* ------------ C6 ------------
\* C6 as claimed: a call that cannot read the cache, or reads text that is
\* not JSON or an entry without a data map, goes on to the round of fetches.
C6_UnreadableIsAMiss_AsClaimed ==
  [][Starts =>
       LET e == ev'[1]
           k == KeyOf(e)
       IN  (k \in DOMAIN store /\ (store[k].json # "obj" \/ store[k].data = Null)) => Misses(e)]_vars

C8_EveryFetchSettles_AsClaimed ==
  \A c \in Callers : pc[c] # 0 => ENABLED (SegmentDone(c) \/ Finish(c))

\* ------------ C9 ------------
\* C9 as claimed: when the later of two calls that ran side by side for one
\* location returns, the store holds under the key a complete gap-free entry
\* stamped on the current day.
RaceIsOver ==
  /\ ev' # Null
  /\ ev'[1].type = "return"
  /\ ev'[1].fetched
  /\ ev'[1].overlap = "same"
  /\ \A c \in Callers : pc'[c] = 0

C9_LastWriterWins_AsClaimed ==
  [][RaceIsOver =>
       LET k == KeyOf(ev'[1])
       IN  /\ GapFree(ev'[1].daily[1])
           /\ StampedOnDayOf(store', k, clock)
           /\ store'[k].data # Null
           /\ GapFree(store'[k].data[1])]_vars

\* C9: each of two calls that ran side by side for one location returns a
\* gap-free map; the one whose save succeeds leaves under the key exactly its
\* own entry, stamped with the current time; a save that fails leaves the
\* store as it was.
C9_LastWriterWins ==
  [][(ev' # Null /\ ev'[1].type = "return" /\ ev'[1].fetched /\ ev'[1].overlap = "same") =>
       LET e == ev'[1]
           k == KeyOf(e)
           entry == [fetchedAt |-> clock, rangeStart |-> toDateStr(WindowStart(e.today)),
                     rangeEnd |-> toDateStr(WindowEnd(e.today)), data |-> e.daily[1]]
       IN  /\ GapFree(e.daily[1])
           /\ ~e.setItemThrew => k \in DOMAIN store' /\ store'[k] = JSONstringify(entry)
           /\ e.setItemThrew => store' = store]_vars

\* Two calls for one location ran side by side, both have returned, and the
\* store holds the entry of the one that returned last, which differs from
\* what the store held before.
C9_Witness ==
  /\ HasReturned
  /\ ev[1].fetched
  /\ ev[1].overlap = "same"
  /\ ~ev[1].setItemThrew
  /\ \A c \in Callers : pc[c] = 0
  /\ ncalls = 2
  /\ store[KeyOf(ev[1])].data = ev[1].daily
  /\ store[KeyOf(ev[1])].fetchedAt = Some(clock)
  /\ ev[1].got = <<1, 0, 0>>

\* ------------ C10 ------------
\* C10 as claimed: when a round that overlapped no other call returns, the
\* store holds an entry for its location stamped with the current time and no
\* entry under another weather key; no step touches a key without the prefix.
Untouched ==
  \A k \in DOMAIN store \cup DOMAIN store' :
    k.prefix # CACHE_PREFIX => k \in DOMAIN store /\ k \in DOMAIN store' /\ store'[k] = store[k]

C10_OnlyThisLocation_AsClaimed ==
  [][/\ Untouched
     /\ (ev' # Null /\ ev'[1].type = "return" /\ ev'[1].fetched /\ ev'[1].overlap = "none") =>
          LET k == KeyOf(ev'[1])
          IN  /\ k \in DOMAIN store'
              /\ store'[k].fetchedAt = Some(clock)
              /\ \A o \in DOMAIN store' : o.prefix = CACHE_PREFIX => o = k]_vars

\* C10: the same, the entry when the save succeeded and the absence of other
\* weather keys when the cleanup could access the storage.
C10_OnlyThisLocation ==
  [][/\ Untouched
     /\ (ev' # Null /\ ev'[1].type = "return" /\ ev'[1].fetched /\ ev'[1].overlap = "none") =>
          LET e == ev'[1]
              k == KeyOf(e)
          IN  /\ ~e.setItemThrew => k \in DOMAIN store' /\ store'[k].fetchedAt = Some(clock)
              /\ ~e.cleanupThrew => \A o \in DOMAIN store' : o.prefix = CACHE_PREFIX => o = k]_vars

\* A round has just returned and saved its entry after the call before it,
\* for the other location, had saved one, which the store no longer holds.
C10_Witness ==
  /\ HasReturned
  /\ ev[1].fetched
  /\ ev[1].overlap = "none"
  /\ ~ev[1].setItemThrew
  /\ ~ev[1].cleanupThrew
  /\ store[KeyOf(ev[1])].fetchedAt = Some(clock)
  /\ ForeignKey \in DOMAIN store
  /\ \E o \in WeatherKeys \ {KeyOf(ev[1])} :
       last[o].state = "unknown" /\ last[o].wrote /\ last[o].daily # Null
         /\ last[o].daily[1].today >= DayOf(FirstTick) /\ o \notin DOMAIN store

\* ------------ C11 ------------
\* The dates a segment asks its server for.
RangeOf(seg) == seg.start..seg.end

\* C11: while a round runs, its window today-7..today+60 is split into the
\* archive range (the dates before today), the forecast range (today to
\* today+15) and the seasonal range (the dates after today+15): every date of
\* the window lies in exactly one of them and none of them leaves the window;
\* the call awaiting segment n has fetched each earlier segment once; and the
\* days a segment delivered all lie in its own range.
C11_SegmentsPartitionWindow ==
  \A c \in Callers : pc[c] > 0 =>
    LET today == call[c].today
        segs == Segments(today)
        got == call[c].got
    IN  /\ Len(segs) = 3
        /\ <<segs[1].source, segs[2].source, segs[3].source>> = <<"archive", "forecast", "seasonal">>
        /\ \A n \in (today - 7)..(today + 60) :
             /\ Cardinality({i \in 1..3 : n \in RangeOf(segs[i])}) = 1
             /\ n < today => n \in RangeOf(segs[1])
             /\ (today <= n /\ n <= today + 15) => n \in RangeOf(segs[2])
             /\ n > today + 15 => n \in RangeOf(segs[3])
        /\ \A i \in 1..3 : RangeOf(segs[i]) \subseteq (today - 7)..(today + 60)
        /\ Len(got) = pc[c] - 1
        /\ \A i \in 1..Len(got) :
             got[i] # 0 =>
               DOMAIN FetchSegment(today, i, Answer(got[i])).val
                 \subseteq {DateStr(n) : n \in RangeOf(segs[i])}

\* A round awaits its seasonal fetch after the archive and the forecast server
\* each delivered a block that carries a timestamp of the day after its range.
C11_Witness ==
  \E c \in Callers :
    /\ pc[c] = 3
    /\ call[c].got = <<1, 1>>
    /\ \A i \in 1..2 :
         LET seg == Segments(call[c].today)[i]
             time == HourlyBlock(1, seg.start, seg.end).time
         IN  \E j \in 1..Len(time) : time[j][1] = DateStr(seg.end + 1)

\* ------------ C12 ------------
\* The trend of a day whose pressure is cur after a day whose pressure was prev.
TrendAgainst(prev, cur) ==
  IF cur - prev > 1 THEN "rising" ELSE IF cur - prev < 0 - 1 THEN "falling" ELSE "steady"

\* C12 as claimed: in the map of a round, when two adjacent segments both
\* delivered their days at the boundary, the pressureTrend of the first day of
\* the later segment is the trend of its pressure against the pressure of the
\* last day of the segment before.
C12_TrendCrossesSegments_AsClaimed ==
  (HasReturned /\ ev[1].fetched) =>
    \A i \in 1..2 :
      LET segs == Segments(ev[1].today)
          before == FetchSegment(ev[1].today, i, Answer(ev[1].got[i]))
          after == FetchSegment(ev[1].today, i + 1, Answer(ev[1].got[i + 1]))
          lastDay == DateStr(segs[i].end)
          firstDay == DateStr(segs[i + 1].start)
          daily == DailyOf(ev[1].daily[1])
      IN  (/\ ev[1].got[i] # 0 /\ ev[1].got[i + 1] # 0
           /\ lastDay \in DOMAIN before.val
           /\ firstDay \in DOMAIN after.val)
            => daily[firstDay].pressureTrend
                 = TrendAgainst(daily[lastDay].pressure, daily[firstDay].pressure)

\* ------------ Solar-lunar alignment (solunarService.ts:14-20, 94-134) ------------
\* A clock time "HH:MM" is the pair <<hh, mm>> of its two fields.
ALIGNMENT_WINDOW_MIN == 90
ALIGNMENT_BONUS_MAJOR == 10
ALIGNMENT_BONUS_MINOR == 5
ALIGNMENT_BONUS_CAP == 20
HOUR_ALIGN_BOOST_MAJOR == 30
HOUR_ALIGN_BOOST_MINOR == 15

parseHHMMToMinutes(t) == t[1] * 60 + t[2]

\* A distance that does not wrap at midnight.
PlainDiff(aMin, bMin) == Abs(aMin - bMin)

circularDiffMinutes(aMin, bMin) ==
  LET diff == Abs(aMin - bMin)
  IN  Minimum(diff, 1440 - diff)

\* The bonus the loop over ms adds: per peak, once for each anchor in reach.
LoopBonus(ms, sunriseMin, sunsetMin, each) ==
  SumSeq([i \in 1..Len(ms) |->
            (IF circularDiffMinutes(parseHHMMToMinutes(ms[i]), sunriseMin) <= ALIGNMENT_WINDOW_MIN
             THEN each ELSE 0)
            + (IF circularDiffMinutes(parseHHMMToMinutes(ms[i]), sunsetMin) <= ALIGNMENT_WINDOW_MIN
               THEN each ELSE 0)])

computeAlignmentBonus(args) ==
  LET sunriseMin == parseHHMMToMinutes(args.sunrise)
      sunsetMin == parseHHMMToMinutes(args.sunset)
      bonus == LoopBonus(args.majors, sunriseMin, sunsetMin, ALIGNMENT_BONUS_MAJOR)
                 + LoopBonus(args.minors, sunriseMin, sunsetMin, ALIGNMENT_BONUS_MINOR)
  IN  Minimum(ALIGNMENT_BONUS_CAP, bonus)

isAligned(peak, sunrise, sunset) ==
  LET p == parseHHMMToMinutes(peak)
      sr == parseHHMMToMinutes(sunrise)
      ss == parseHHMMToMinutes(sunset)
  IN  \/ circularDiffMinutes(p, sr) <= ALIGNMENT_WINDOW_MIN
      \/ circularDiffMinutes(p, ss) <= ALIGNMENT_WINDOW_MIN

\* ------------ Moon phase (solunarService.ts:28-37) ------------
\* A naming whose upper edges are inclusive.
NameUpToEdge(phase) ==
  IF phase <= Hundredths(3) \/ phase >= Hundredths(97) THEN "New Moon"
  ELSE IF phase <= Hundredths(22) THEN "Waxing Crescent"
  ELSE IF phase <= Hundredths(28) THEN "First Quarter"
  ELSE IF phase <= Hundredths(47) THEN "Waxing Gibbous"
  ELSE IF phase <= Hundredths(53) THEN "Full Moon"
  ELSE IF phase <= Hundredths(72) THEN "Waning Gibbous"
  ELSE IF phase <= Hundredths(78) THEN "Last Quarter"
  ELSE "Waning Crescent"

getMoonPhaseName(phase) ==
  IF phase < Hundredths(3) \/ phase > Hundredths(97) THEN "New Moon"
  ELSE IF phase < Hundredths(22) THEN "Waxing Crescent"
  ELSE IF phase < Hundredths(28) THEN "First Quarter"
  ELSE IF phase < Hundredths(47) THEN "Waxing Gibbous"
  ELSE IF phase < Hundredths(53) THEN "Full Moon"
  ELSE IF phase < Hundredths(72) THEN "Waning Gibbous"
  ELSE IF phase < Hundredths(78) THEN "Last Quarter"
  ELSE "Waning Crescent"

\* ------------ Sun and moon (solunarService.ts:10-11, 22-26, 42-92) ------------
\* Hours, phases and angles are numbers of four decimals.  A Date is the
\* midnight of a day number, in a zone that keeps UTC all year.

\* The day number of 30 December 2024 and the minute of that day at which
\* NEW_MOON_REF falls (22:27).
NewMoonRefDay == NewDate(2025, 0, 1) - 2
NewMoonRefMinute == 22 * 60 + 27

\* SYNODIC_MONTH (29.530588853 days) in hundredths of a minute.
SynodicMonth == 4252405

\* getMoonPhaseValue: the fraction of the synodic month that has passed since
\* the reference new moon; a negative remainder is raised by 1.
getMoonPhaseValue(date) ==
  LET diff == ((date - NewMoonRefDay) * 1440 - NewMoonRefMinute) * 100
  IN  ((diff % SynodicMonth) * 100) \div ((SynodicMonth \div 100) + 1)

\* dayOfYear (solunarService.ts:43): 1 on 1 January.
dayOfYear(date) == date - NewDate(getFullYear(date), 0, 0)

\* (lat * Math.PI) / 180 for a latitude in thousandths of a degree.
Radians(lat) == RoundDiv(RoundDiv(lat, 10) * Pi, 18000)

\* delta = 0.409 * Math.sin((2 * Math.PI * (dayOfYear - 81)) / 365)
Declination(doy) == MulU(4090, Sin(RoundDiv(2 * Pi * (doy - 81), 365)))

\* Math.max(-1, Math.min(1, -Math.tan(phi) * Math.tan(delta))), the product of
\* the tangents taken as (sin phi sin delta) / (cos phi cos delta): at a pole
\* the tangent is a huge finite number, and the product is 0 when delta is 0.
ClampedCosH(phi, delta) ==
  LET s == MulU(Sin(phi), Sin(delta))
      c == MulU(Cos(phi), Cos(delta))
  IN  IF s = 0 THEN 0
      ELSE IF Abs(s) >= c THEN (IF s > 0 THEN 0 - Unit ELSE Unit)
      ELSE 0 - RoundDiv(s * Unit, c)

\* Math.acos(...) * (12 / Math.PI): 12 / pi is 3.8197.
HourAngle(cosH) == 3 * Acos(cosH) + RoundDiv(Acos(cosH) * 8197, Unit)

\* solarNoon, sunriseHour and sunsetHour (solunarService.ts:45-55), for a
\* longitude in thousandths of a degree.
SolarHours(date, lat, lon) ==
  LET hourAngle == HourAngle(ClampedCosH(Radians(lat), Declination(dayOfYear(date))))
      timezoneOffset == RoundDiv(lon, 15000)
      lonCorrection == RoundDiv((timezoneOffset * 15000 - lon) * 2, 3)
      solarNoon == 12 * Unit + lonCorrection
  IN  [solarNoon |-> solarNoon, sunriseHour |-> solarNoon - hourAngle, sunsetHour |-> solarNoon + hourAngle]

\* A formatter without the wrap into one day.
FormatUnwrapped(h) == <<h \div Unit, ((h - (h \div Unit) * Unit) * 60) \div Unit>>

\* format (solunarService.ts:57-61, 80-84): "HH:MM" of an hour count.
format(h) ==
  LET wrapped == (h + 24 * Unit) % (24 * Unit)
      hh == wrapped \div Unit
      mm == ((wrapped - hh * Unit) * 60) \div Unit
  IN  <<hh, mm>>

getSolarTimes(date, lat, lon) ==
  LET hours == SolarHours(date, lat, lon)
  IN  [sunrise |-> format(hours.sunriseHour), sunset |-> format(hours.sunsetHour),
       solarNoon |-> hours.solarNoon]

\* [a, b].sort() of two "HH:MM" strings.
SortTimes(a, b) == IF a[1] < b[1] \/ (a[1] = b[1] /\ a[2] <= b[2]) THEN <<a, b>> ELSE <<b, a>>

getSolunarPeaks(phase, solarNoon) ==
  LET day == 24 * Unit
      moonTransit == (solarNoon + phase * 24) % day
      major1 == moonTransit
      major2 == (moonTransit + 124200) % day
      minor1 == (moonTransit - 62100 + day) % day
      minor2 == (moonTransit + 62100) % day
  IN  [major |-> SortTimes(format(major1), format(major2)),
       minor |-> SortTimes(format(minor1), format(minor2)),
       rise |-> format(minor1),
       set |-> format(minor2)]

\* ------------ One day of the forecast (solunarService.ts:148-226) ------------
\* A base score that starts from 40 in place of 50.
BaseScoreFromForty(phaseVal) ==
  40 * Unit + 20 * (Cos((4 * Pi * phaseVal) \div Unit) + Unit)
    + (IF \/ phaseVal < Hundredths(5)
          \/ phaseVal > Hundredths(95)
          \/ (phaseVal > Hundredths(45) /\ phaseVal < Hundredths(55))
       THEN 5 * Unit ELSE 0)

\* baseScore: 50 + phaseImpact * 40, and 5 more near the new and the full moon.
BaseScore(phaseVal) ==
  50 * Unit + 20 * (Cos((4 * Pi * phaseVal) \div Unit) + Unit)
    + (IF \/ phaseVal < Hundredths(5)
          \/ phaseVal > Hundredths(95)
          \/ (phaseVal > Hundredths(45) /\ phaseVal < Hundredths(55))
       THEN 5 * Unit ELSE 0)

\* hScore of the hour h in 180ths (the slopes are 20/120, amp/90 and amp/60).
HourScore(h, solar, peaks) ==
  LET hMin == h * 60
      anchor(t) == LET diff == circularDiffMinutes(hMin, parseHHMMToMinutes(t))
                   IN  IF diff < 120 THEN (120 - diff) * 30 ELSE 0
      major(t) == LET diff == circularDiffMinutes(hMin, parseHHMMToMinutes(t))
                      amp == IF isAligned(t, solar.sunrise, solar.sunset)
                             THEN 40 + HOUR_ALIGN_BOOST_MAJOR ELSE 40
                  IN  IF diff < 90 THEN (90 - diff) * amp * 2 ELSE 0
      minor(t) == LET diff == circularDiffMinutes(hMin, parseHHMMToMinutes(t))
                      amp == IF isAligned(t, solar.sunrise, solar.sunset)
                             THEN 18 + HOUR_ALIGN_BOOST_MINOR ELSE 18
                  IN  IF diff < 60 THEN (60 - diff) * amp * 3 ELSE 0
  IN  18 * 180 + anchor(solar.sunrise) + anchor(solar.sunset)
        + major(peaks.major[1]) + major(peaks.major[2])
        + minor(peaks.minor[1]) + minor(peaks.minor[2])

\* An hourly value that is not clamped.
UnclampedActivity(h, solar, peaks) == HourScore(h, solar, peaks) \div 180

\* Math.min(100, Math.max(10, Math.floor(hScore)))
HourActivity(h, solar, peaks) ==
  Minimum(100, Maximum(10, HourScore(h, solar, peaks) \div 180))

\* The FishingDay pushed for day d, but for its weather (solunarService.ts:
\* 156-226), from the phase, the solar times and the peaks of its date.
PushedDay(d, phaseVal, solar, peaks) ==
  [day |-> d,
   score |-> Minimum(100,
                     (BaseScore(phaseVal)
                        + Unit * computeAlignmentBonus([sunrise |-> solar.sunrise, sunset |-> solar.sunset,
                                                        majors |-> peaks.major, minors |-> peaks.minor]))
                       \div Unit),
   moonPhase |-> getMoonPhaseName(phaseVal),
   moonPhaseValue |-> phaseVal,
   bestTimes |-> peaks.major,
   hourlyActivity |-> Tuple([i \in 1..24 |-> HourActivity(i - 1, solar, peaks)]),
   events |-> <<[type |-> "sunrise", time |-> solar.sunrise],
                [type |-> "sunset", time |-> solar.sunset],
                [type |-> "moonrise", time |-> peaks.rise],
                [type |-> "moonset", time |-> peaks.set],
                [type |-> "major", time |-> peaks.major[1]],
                [type |-> "major", time |-> peaks.major[2]],
                [type |-> "minor", time |-> peaks.minor[1]],
                [type |-> "minor", time |-> peaks.minor[2]]>>]

\* peaks = getSolunarPeaks(phaseVal, solar.solarNoon) (solunarService.ts:154)
DayUnderSun(d, phaseVal, solar) ==
  PushedDay(d, phaseVal, solar, getSolunarPeaks(phaseVal, solar.solarNoon))

\* The fields of the FishingDay of a date that do not depend on the weather
\* (solunarService.ts:148-226).
FishingDay(d, date, location) ==
  DayUnderSun(d, getMoonPhaseValue(date), getSolarTimes(date, location.latitude, location.longitude))

\* A loop that stops before the last day of the month.
StopBeforeLastDay(month, year, location, monthly) ==
  IF ~monthly.ok THEN Threw
  ELSE LET daysInMonth == getDate(NewDate(year, month, 0))
       IN  Returned([month |-> month, year |-> year,
                     days |-> Tuple([d \in 1..(daysInMonth - 1) |->
                                       FishingDay(d, NewDate(year, month - 1, d), location)])])

\* The MonthlyForecast with all the fields of its days but the weather
\* (solunarService.ts:144-229).
ForecastDays(month, year, location, monthly) ==
  IF ~monthly.ok THEN Threw
  ELSE LET daysInMonth == getDate(NewDate(year, month, 0))
       IN  Returned([month |-> month, year |-> year,
                     days |-> Tuple([d \in 1..daysInMonth |->
                                       FishingDay(d, NewDate(year, month - 1, d), location)])])

\* ------------ The peak-window variant (part_003:256-354) ------------
\* Sunrise, sunset, the transits and the moon times come from SunCalc there;
\* the minors are the moon times that exist, the "—" entries filtered out.
PEAK_HOUR_ALIGN_BOOST_MAJOR == 35
PEAK_HOUR_ALIGN_BOOST_MINOR == 20

computeBasePhaseScore(phaseVal) ==
  50 * Unit + 20 * (Cos((4 * Pi * phaseVal) \div Unit) + Unit)
    + (IF \/ phaseVal < Hundredths(3)
          \/ phaseVal > Hundredths(97)
          \/ (phaseVal > Hundredths(47) /\ phaseVal < Hundredths(53))
       THEN 5 * Unit ELSE 0)

\* hScore of the hour h (part_003:299-337), to four decimals.
PeakHourScore(h, sunrise, sunset, majors, minors) ==
  LET hMin == h * 60
      anchor(t) == LET diff == circularDiffMinutes(hMin, parseHHMMToMinutes(t))
                   IN  IF diff < 90 THEN 25 * Cos(RoundDiv(diff * Pi, 180)) ELSE 0
      major(t) == LET diff == circularDiffMinutes(hMin, parseHHMMToMinutes(t))
                      amp == IF isAligned(t, sunrise, sunset)
                             THEN 50 + PEAK_HOUR_ALIGN_BOOST_MAJOR ELSE 50
                      c == Cos(RoundDiv(diff * Pi, 240))
                  IN  IF diff < 120 THEN MulU(c, c) * amp ELSE 0
      minor(t) == LET diff == circularDiffMinutes(hMin, parseHHMMToMinutes(t))
                      amp == IF isAligned(t, sunrise, sunset)
                             THEN 25 + PEAK_HOUR_ALIGN_BOOST_MINOR ELSE 25
                      c == Cos(RoundDiv(diff * Pi, 150))
                  IN  IF diff < 75 THEN MulU(c, c) * amp ELSE 0
  IN  20 * Unit + anchor(sunrise) + anchor(sunset)
        + SumSeq([i \in 1..Len(majors) |-> major(majors[i])])
        + SumSeq([i \in 1..Len(minors) |-> minor(minors[i])])

\* The pairs (value, maximum) for which the double product value * (85 /
\* maximum) falls just below the whole number value * 85 / maximum; no pair
\* does for 100 / maximum.
RoundedBelow == {<<21, 35>>, <<39, 39>>, <<42, 70>>, <<78, 78>>}

\* Math.floor(value * ratio) with ratio = target / maxHourVal.
FloorOfScaled(value, target, maxHourVal) ==
  IF target = 85 /\ <<value, maxHourVal>> \in RoundedBelow
  THEN (value * target) \div maxHourVal - 1
  ELSE (value * target) \div maxHourVal

\* A normalization that rescales the days of score 85 and more only.
RescaleHighOnly(finalScore, hourlyActivity) ==
  IF finalScore >= 85 /\ max(hourlyActivity) < 95
  THEN Tuple([i \in 1..24 |-> Minimum(100, FloorOfScaled(hourlyActivity[i], 100, max(hourlyActivity)))])
  ELSE hourlyActivity

\* The normalization step (part_003:342-354).
Normalize(finalScore, hourlyActivity) ==
  LET maxHourVal == max(hourlyActivity)
  IN  IF finalScore >= 85 /\ maxHourVal < 95
      THEN Tuple([i \in 1..24 |-> Minimum(100, FloorOfScaled(hourlyActivity[i], 100, maxHourVal))])
      ELSE IF finalScore >= 70 /\ maxHourVal < 80
      THEN Tuple([i \in 1..24 |-> FloorOfScaled(hourlyActivity[i], 85, maxHourVal)])
      ELSE hourlyActivity

\* The hourly curve before the normalization (part_003:298-340).
PeakHourly(sunrise, sunset, majors, minors) ==
  Tuple([i \in 1..24 |->
           Minimum(100, Maximum(10, PeakHourScore(i - 1, sunrise, sunset, majors, minors) \div Unit))])

\* score and hourlyActivity of one day (part_003:273-354).
PeakDay(phaseVal, sunrise, sunset, majors, minors) ==
  LET alignmentBonus == computeAlignmentBonus([sunrise |-> sunrise, sunset |-> sunset,
                                               majors |-> majors, minors |-> minors])
      finalScore == Minimum(100, (computeBasePhaseScore(phaseVal) + alignmentBonus * Unit) \div Unit)
  IN  [score |-> finalScore,
       hourlyActivity |-> Normalize(finalScore, PeakHourly(sunrise, sunset, majors, minors))]

\* ------------ pickPeakActivityWindow (part_003:20-43, 97-159) ------------
\* The Date of a peak is the minute of its day, 0..1439.
MAJOR_HALF_MIN == 60
MINOR_HALF_MIN == 30

\* fmtHHMM: "HH:MM" of a Date.
fmtHHMM(d) == <<d \div 60, d % 60>>

\* fmt12h: hour 1..12, minute, and AM or PM.
fmt12h(d) ==
  [hh |-> (((d \div 60) + 11) % 12) + 1, mm |-> d % 60, ampm |-> IF d \div 60 >= 12 THEN "PM" ELSE "AM"]

\* addMinutes, read on the clock of the day the Date falls in.
addMinutes(d, minutes) == (d + minutes + 1440) % 1440

windowStringFromCenter(center, halfMin) ==
  [start |-> fmt12h(addMinutes(center, 0 - halfMin)), end |-> fmt12h(addMinutes(center, halfMin))]

\* The PeakCandidate pushed for the Date m (part_003:123-132, 136-145).
Candidate(kind, m, sunriseMin, sunsetMin) ==
  LET hhmm == fmtHHMM(m)
      mMin == parseHHMMToMinutes(hhmm)
      d == Minimum(circularDiffMinutes(mMin, sunriseMin), circularDiffMinutes(mMin, sunsetMin))
  IN  [kind |-> kind, center |-> m, centerHHMM |-> hhmm,
       aligned |-> d <= ALIGNMENT_WINDOW_MIN, distToTwilightMin |-> d]

\* A comparator that looks at the kind before the alignment.
CompareKindFirst(a, b) ==
  IF a.kind # b.kind THEN (IF a.kind = "major" THEN 0 - 1 ELSE 1)
  ELSE IF a.aligned # b.aligned THEN (IF a.aligned THEN 0 - 1 ELSE 1)
  ELSE IF a.distToTwilightMin # b.distToTwilightMin THEN a.distToTwilightMin - b.distToTwilightMin
  ELSE parseHHMMToMinutes(a.centerHHMM) - parseHHMMToMinutes(b.centerHHMM)

\* The comparator of candidates.sort (part_003:148-153).
CompareCandidates(a, b) ==
  IF a.aligned # b.aligned THEN (IF a.aligned THEN 0 - 1 ELSE 1)
  ELSE IF a.kind # b.kind THEN (IF a.kind = "major" THEN 0 - 1 ELSE 1)
  ELSE IF a.distToTwilightMin # b.distToTwilightMin THEN a.distToTwilightMin - b.distToTwilightMin
  ELSE parseHHMMToMinutes(a.centerHHMM) - parseHHMMToMinutes(b.centerHHMM)

\* Array.prototype.sort, which is stable: c goes behind every element of the
\* sorted array that does not compare greater than it.
InsertSorted(sorted, c) ==
  LET behind == {i \in 1..Len(sorted) : CompareCandidates(sorted[i], c) <= 0}
      at == IF behind = {} THEN 0 ELSE CHOOSE i \in behind : \A j \in behind : j <= i
  IN  SubSeq(sorted, 1, at) \o <<c>> \o SubSeq(sorted, at + 1, Len(sorted))

RECURSIVE SortCandidates(_)
SortCandidates(cs) ==
  IF cs = << >> THEN << >>
  ELSE InsertSorted(SortCandidates(SubSeq(cs, 1, Len(cs) - 1)), cs[Len(cs)])

pickPeakActivityWindow(args) ==
  LET sunriseMin == parseHHMMToMinutes(args.sunrise)
      sunsetMin == parseHHMMToMinutes(args.sunset)
      candidates ==
        SortCandidates(
          Tuple([i \in 1..Len(args.majors) |-> Candidate("major", args.majors[i], sunriseMin, sunsetMin)])
            \o Tuple([i \in 1..Len(args.minors) |-> Candidate("minor", args.minors[i], sunriseMin, sunsetMin)]))
      best == candidates[1]
      half == IF best.kind = "major" THEN MAJOR_HALF_MIN ELSE MINOR_HALF_MIN
      label == IF best.kind = "major" THEN "Major" ELSE "Minor"
  IN  [window |-> [range |-> windowStringFromCenter(best.center, half), label |-> label],
       kindLabel |-> label]

\* ------------ Date keys as text ------------
\* String.prototype.padStart
RECURSIVE padStart(_, _, _)
padStart(s, targetLength, padString) ==
  IF Len(s) >= targetLength THEN s ELSE padStart(padString \o s, targetLength, padString)

\* getFullYear of new Date(year, monthIndex, day): the Date constructor takes
\* a year from 0 to 99 as 1900 + year (solunarService.ts:144-146,
\* part_001:168-169).
FullYearOf(year) == IF year \in 0..99 THEN 1900 + year ELSE year

\* toDateStr (part_001:339-344) as text, of the Date whose getFullYear,
\* getMonth() + 1 and getDate are yyyy, month and day.
DateText(yyyy, month, day) ==
  ToString(yyyy) \o "-" \o padStart(ToString(month), 2, "0") \o "-" \o padStart(ToString(day), 2, "0")

\* dateKey of calculateFishingForecast (solunarService.ts:147).
dateKey(year, month, d) ==
  ToString(year) \o "-" \o padStart(ToString(month), 2, "0") \o "-" \o padStart(ToString(d), 2, "0")

\* The map fetchMonthlyWeather(month, year, location) returns, under its text
\* keys (part_001:168-181), up to the day of the month n: the loop and
\* fillMissingDays run over the Dates from new Date(year, month - 1, 1) to
\* new Date(year, month, 0).  A month no cached window reaches is filled with
\* the default.
RECURSIVE MonthlyTextUpTo(_, _, _, _)
MonthlyTextUpTo(yyyy, month, monthly, n) ==
  IF n = 0 THEN EmptyMap
  ELSE (DateText(yyyy, month, n) :>
          (IF yyyy \in Years THEN monthly[<<yyyy, month, n>>] ELSE DefaultWeather))
       @@ MonthlyTextUpTo(yyyy, month, monthly, n - 1)

MonthlyText(month, year, daily) ==
  LET yyyy == FullYearOf(year)
  IN  MonthlyTextUpTo(yyyy, month,
                      IF yyyy \in Years THEN fetchMonthlyWeather(month, yyyy, Some(daily)).val ELSE EmptyMap,
                      DaysInMonth(yyyy, month))

\* The day and the weather of every FishingDay calculateFishingForecast
\* builds (solunarService.ts:142-149), weatherMap being the map of
\* fetchMonthlyWeather.
WeatherOfDays(month, year, weatherMap) ==
  [d \in 1..DaysInMonth(FullYearOf(year), month) |->
     [day |-> d,
      dateKey |-> dateKey(year, month, d),
      weather |-> IF dateKey(year, month, d) \in DOMAIN weatherMap
                  THEN Some(weatherMap[dateKey(year, month, d)]) ELSE Null]]

\* ------------ The functions that touch no storage and no network ------------
\* calc holds the name of a function and arguments drawn from a bounded set;
\* a step applies the function and keeps the result with them.
Asked(fn, arg) == [fn |-> fn, arg |-> arg, done |-> FALSE, out |-> Null]
Apply(fn, out) ==
  /\ calc.fn = fn
  /\ ~calc.done
  /\ calc' = [calc EXCEPT !.done = TRUE, !.out = out]
  /\ UNCHANGED <<clock, store, pc, call, ev, last, ncalls>>
Applied(fn) == calc.fn = fn /\ calc.done

\* One day of hourly pressure samples, all other arrays absent.
PressureBlock(samples) ==
  [time |-> Tuple([i \in 1..Len(samples) |-> <<DateStr(0), i>>]),
   temperature_2m |-> << >>,
   pressure_msl |-> Tuple([i \in 1..Len(samples) |-> Some(samples[i])]),
   wind_speed_10m |-> << >>,
   wind_direction_10m |-> << >>,
   weather_code |-> << >>]

PressureSamples == 1007..1014
SampleLists ==
  {<<a>> : a \in PressureSamples} \cup {<<a, b>> : a \in PressureSamples, b \in PressureSamples}
PrevPressures == {Null} \cup {Some(p) : p \in 1009..1011}

\* The codes of a day: clear sky, clouds, fog, drizzle, rain, showers, snow,
\* thunderstorms, and two codes the table does not know.
CodeSamples == {0, 2, 4, 45, 51, 61, 80, 71, 86, 95, 96, 99, 100}
CodeLists ==
  {<<a>> : a \in CodeSamples}
    \cup {<<a, b>> : a \in CodeSamples, b \in CodeSamples}
    \cup {<<a, b, c>> : a \in CodeSamples, b \in CodeSamples, c \in CodeSamples}

\* Clock times around the anchors: 90 and 91 minutes away from them, between
\* two anchors, across midnight, and far from all.
SunriseTimes == {<<6, 0>>, <<0, 30>>}
SunsetTimes == {<<18, 0>>, <<7, 30>>, <<23, 30>>}
MajorTimes == {<<4, 30>>, <<4, 29>>, <<6, 45>>, <<7, 31>>, <<23, 0>>, <<22, 59>>, <<23, 45>>, <<12, 0>>}
MinorTimes == {<<4, 30>>, <<6, 45>>, <<19, 31>>, <<2, 0>>, <<12, 0>>}

PhaseSamples == {p \in 0..(Unit - 1) : p % 10 \in {0, 1, 9}}

Idle ==
  /\ clock = FirstTick
  /\ store = (ForeignKey :> ForeignItem)
  /\ pc = [c \in Callers |-> 0]
  /\ call = [c \in Callers |-> IdleCall]
  /\ ev = Null
  /\ last = [k \in WeatherKeys |-> NoCallYet]
  /\ ncalls = 0

AggregateInputs ==
  {Asked("AggregateDay", [samples |-> samples, prev |-> prev]) :
     samples \in SampleLists, prev \in PrevPressures}

CodesInputs == {Asked("codesToCondition", [codes |-> codes]) : codes \in CodeLists}

AlignmentInputs ==
  {Asked("computeAlignmentBonus",
         [sunrise |-> sunrise, sunset |-> sunset, majors |-> <<M1, M2>>, minors |-> <<m1, m2>>]) :
     sunrise \in SunriseTimes, sunset \in SunsetTimes,
     M1 \in MajorTimes, M2 \in MajorTimes, m1 \in MinorTimes, m2 \in MinorTimes}

PhaseNameInputs == {Asked("getMoonPhaseName", [phase |-> phase]) : phase \in PhaseSamples}

\* Days of the last year: every fifth one, the equinox and the solstices.
SolarDates ==
  {NewDate(LastYear, 0, 0) + doy : doy \in {n \in 1..365 : n % 5 = 1 \/ n \in {80, 172, 173, 355}}}
\* Latitudes and longitudes in thousandths of a degree: the equator, the
\* middle latitudes, both sides of the polar circles, the poles; the middle of
\* a time zone, both of its edges, the date line.
SolarLatitudes ==
  {0, 45267, 0 - 33900, 60000, 66000, 66450, 66490, 0 - 66490, 66500, 70000, 0 - 70000, 90000, 0 - 90000}
SolarLongitudes == {0, 19834, 7400, 0 - 7400, 7500, 0 - 7500, 15000, 120300, 180000, 0 - 180000}

SolarInputs ==
  {Asked("getSolarTimes", [date |-> date, lat |-> lat, lon |-> lon]) :
     date \in SolarDates, lat \in SolarLatitudes, lon \in SolarLongitudes}

\* The places a forecast is computed for: the two of the store, one inside
\* the polar circle, one just outside it, and the north pole.
ForecastLocations ==
  Locations \cup {[latitude |-> 70000, longitude |-> 25000],
                  [latitude |-> 66490, longitude |-> 7400],
                  [latitude |-> 90000, longitude |-> 0]}

ForecastInputs ==
  {Asked("calculateFishingForecast", [month |-> month, year |-> year, location |-> location]) :
     month \in Months, year \in Years, location \in ForecastLocations}

\* What SunCalc hands to the peak-window variant.
PeakPhases == {p \in 0..(Unit - 1) : p % 250 \in {0, 1, 249}}
PeakMajors == {<<<<4, 30>>, <<16, 55>>>>, <<<<6, 45>>, <<19, 10>>>>, <<<<0, 10>>, <<12, 0>>>>, <<<<11, 35>>, <<23, 0>>>>}
PeakMinors == {<< >>, <<<<2, 0>>>>, <<<<6, 45>>>>, <<<<4, 30>>, <<19, 31>>>>, <<<<12, 0>>, <<23, 45>>>>}

PeakInputs ==
  {Asked("PeakDay", [phase |-> phase, sunrise |-> sunrise, sunset |-> sunset,
                     majors |-> majors, minors |-> minors]) :
     phase \in PeakPhases, sunrise \in SunriseTimes, sunset \in SunsetTimes,
     majors \in PeakMajors, minors \in PeakMinors}

\* One day of hourly wind directions, all other arrays absent.
WindBlock(dirs) ==
  [time |-> Tuple([i \in 1..Len(dirs) |-> <<DateStr(0), i>>]),
   temperature_2m |-> << >>,
   pressure_msl |-> << >>,
   wind_speed_10m |-> << >>,
   wind_direction_10m |-> Tuple([i \in 1..Len(dirs) |-> Some(dirs[i])]),
   weather_code |-> << >>]

\* Directions on both sides of north and of the edge between NW and N.
DirSamples == {0, 10, 90, 135, 200, 270, 315, 337, 338, 350}
\* The sum of the unit vectors of the directions is longer than one half:
\* where the vectors cancel, the direction of the double sum is rounding noise.
HasDirection(dirs) ==
  LET x == SumSeq([i \in 1..Len(dirs) |-> CosDeg(dirs[i])]) \div 100
      y == SumSeq([i \in 1..Len(dirs) |-> SinDeg(dirs[i])]) \div 100
  IN  4 * (x * x + y * y) >= Unit
DirLists ==
  {dirs \in {<<a>> : a \in DirSamples}
             \cup {<<a, b>> : a \in DirSamples, b \in DirSamples}
             \cup {<<a, b, c>> : a \in DirSamples, b \in DirSamples, c \in DirSamples} :
     HasDirection(dirs)}

WindInputs == {Asked("windDirection", [dirs |-> dirs]) : dirs \in DirLists}

\* Angles in hundredths of a degree, around every edge of a sector.
DegreeSamples == {deg \in 0..35999 : deg % 250 \in {0, 1, 249}}
CardinalInputs == {Asked("degreesToCardinal", [deg |-> deg]) : deg \in DegreeSamples}

\* Maps over six consecutive days, each day absent or holding one of two
\* records, and ranges inside them that leave days out on both sides.
FillFirstDay == NewDate(LastYear, 0, 30)
FillValues ==
  {[DefaultWeather EXCEPT !.tempHigh = 25, !.windDirection = "S"],
   [DefaultWeather EXCEPT !.pressure = 1000, !.pressureTrend = "falling"]}
FillMaps ==
  UNION {[{DateStr(n) : n \in present} -> FillValues] : present \in SUBSET (FillFirstDay..(FillFirstDay + 5))}
FillInputs ==
  {Asked("fillMissingDays", [map |-> map @@ EmptyMap, start |-> start, end |-> end]) :
     map \in FillMaps, start \in {FillFirstDay + 1, FillFirstDay + 2},
     end \in {FillFirstDay + 3, FillFirstDay + 4}}

\* The Dates SunCalc hands to pickPeakActivityWindow: the two transits in
\* ascending order, and the moonrise and moonset that exist.
CenterSamples == {30, 120, 270, 271, 405, 451, 720, 1015, 1171, 1380}
PickMajors == {ab \in CenterSamples \X CenterSamples : ab[1] < ab[2]}
PickMinors ==
  {<< >>} \cup {<<a>> : a \in {120, 405, 1171}}
    \cup {<<a, b>> : a \in {120, 270, 405}, b \in {451, 720, 1171}}
PickInputs ==
  {Asked("pickPeakActivityWindow",
         [sunrise |-> sunrise, sunset |-> sunset, majors |-> majors, minors |-> minors]) :
     sunrise \in SunriseTimes, sunset \in SunsetTimes, majors \in PickMajors, minors \in PickMinors}

\* Curves of 24 values of [10, 100] with a given greatest value and a given
\* second value, and scores on both sides of 70 and of 85.
CurveOf(top, second) ==
  Tuple([i \in 1..24 |-> IF i \in {3, 17} THEN top ELSE IF i % 2 = 0 THEN second ELSE 10])
NormalizeInputs ==
  {Asked("Normalize", [finalScore |-> finalScore, hourlyActivity |-> CurveOf(top, second)]) :
     finalScore \in {69, 70, 84, 85},
     top \in 10..100,
     second \in {v \in 10..100 : v % 7 = 0 \/ v \in {10, 21, 39, 78, 94, 95, 100}}}

BaseScoreInputs == {Asked("baseScore", [phase |-> phase]) : phase \in PhaseSamples}

\* The years a forecast may be asked for: before the common era, of one, two,
\* three, four and five digits, a century year that is no leap year.
KeyYears == {0 - 1, 0, 50, 99, 100, 999, 1900, BaseYear, LastYear, 10000}
DateKeyInputs == {Asked("dateKey", [month |-> m, year |-> y]) : m \in Months, y \in KeyYears}

CalcInit ==
  /\ Idle
  /\ \/ calc \in DateKeyInputs
     \/ calc \in AggregateInputs
     \/ calc \in CodesInputs
     \/ calc \in AlignmentInputs
     \/ calc \in PhaseNameInputs
     \/ calc \in SolarInputs
     \/ calc \in ForecastInputs
     \/ calc \in PeakInputs
     \/ calc \in WindInputs
     \/ calc \in CardinalInputs
     \/ calc \in FillInputs
     \/ calc \in PickInputs
     \/ calc \in BaseScoreInputs
     \/ calc \in {a \in NormalizeInputs : a.arg.hourlyActivity[2] <= a.arg.hourlyActivity[3]}

\* One day is aggregated after a day of pressure prev (part_001:234-265).
AggregateStep ==
  Apply("AggregateDay",
        AggregateDay(PressureBlock(calc.arg.samples),
                     Tuple([i \in 1..Len(calc.arg.samples) |-> i]), calc.arg.prev))

CodesStep == Apply("codesToCondition", codesToCondition(calc.arg.codes))

AlignmentStep == Apply("computeAlignmentBonus", computeAlignmentBonus(calc.arg))

PhaseNameStep == Apply("getMoonPhaseName", getMoonPhaseName(calc.arg.phase))

SolarStep ==
  Apply("getSolarTimes", getSolarTimes(calc.arg.date, calc.arg.lat, calc.arg.lon))

\* The forecast of a month whose weather is that of the run of the day before.
ForecastStep ==
  Apply("calculateFishingForecast",
        ForecastDays(calc.arg.month, calc.arg.year, calc.arg.location,
                     fetchMonthlyWeather(calc.arg.month, calc.arg.year, Some(DailyOf(YesterdaysRun)))))

PeakDayStep ==
  Apply("PeakDay",
        PeakDay(calc.arg.phase, calc.arg.sunrise, calc.arg.sunset, calc.arg.majors, calc.arg.minors))

\* The wind direction of one aggregated day (part_001:237, 253).
WindStep ==
  Apply("windDirection",
        AggregateDay(WindBlock(calc.arg.dirs), Tuple([i \in 1..Len(calc.arg.dirs) |-> i]), Null))

CardinalStep == Apply("degreesToCardinal", degreesToCardinal(calc.arg.deg))

FillStep == Apply("fillMissingDays", fillMissingDays(calc.arg.map, calc.arg.start, calc.arg.end))

PickStep == Apply("pickPeakActivityWindow", pickPeakActivityWindow(calc.arg))

NormalizeStep == Apply("Normalize", Normalize(calc.arg.finalScore, calc.arg.hourlyActivity))

\* baseScore of a phase value in solunarService.ts (156-161) and in the
\* peak-window variant (part_003:256-261).
BaseScoreStep ==
  Apply("baseScore",
        [service |-> BaseScore(calc.arg.phase), peakWindow |-> computeBasePhaseScore(calc.arg.phase)])

\* The days of a forecast with their date keys and weather, the cache being
\* the one a round of yesterday left.
DateKeyStep ==
  Apply("dateKey",
        WeatherOfDays(calc.arg.month, calc.arg.year,
                      MonthlyText(calc.arg.month, calc.arg.year, DailyOf(YesterdaysRun))))

CalcNext ==
  \/ DateKeyStep
  \/ AggregateStep
  \/ CodesStep
  \/ AlignmentStep
  \/ PhaseNameStep
  \/ SolarStep
  \/ ForecastStep
  \/ PeakDayStep
  \/ WindStep
  \/ CardinalStep
  \/ FillStep
  \/ PickStep
  \/ BaseScoreStep
  \/ NormalizeStep

CalcSpec == CalcInit /\ [][CalcNext]_vars

\* ------------ C13 ------------
\* Math.round of the mean of the samples is r.
RoundsTo(samples, r) ==
  /\ (2 * r - 1) * Len(samples) <= 2 * SumSeq(samples)
  /\ 2 * SumSeq(samples) < (2 * r + 1) * Len(samples)

\* The mean of the samples is half / 2.
MeanIsHalves(samples, half) == 2 * SumSeq(samples) = half * Len(samples)

\* C13 as claimed: after a day of pressure 1010, a day whose mean pressure
\* is 1012.5 is rising, one whose mean is 1012 is steady and one whose mean is
\* 1008 is falling.
C13_TrendThreshold_AsClaimed ==
  (Applied("AggregateDay") /\ calc.arg.prev = Some(1010)) =>
    /\ MeanIsHalves(calc.arg.samples, 2025) => calc.out.pressureTrend = "rising"
    /\ MeanIsHalves(calc.arg.samples, 2024) => calc.out.pressureTrend = "steady"
    /\ MeanIsHalves(calc.arg.samples, 2016) => calc.out.pressureTrend = "falling"

\* C13: the pressure of a day is its mean pressure rounded to an integer; the
\* day is rising when that exceeds the previous day's pressure by more than
\* 1, falling when it is lower by more than 1, steady otherwise and when there
\* is no previous day.  After 1010: 1012.5 (kept as 1013) and 1012 are rising,
\* 1011 and 1009 are steady, 1008 is falling.
C13_TrendThreshold ==
  Applied("AggregateDay") =>
    LET p == calc.out.pressure
        trend == calc.out.pressureTrend
    IN  /\ RoundsTo(calc.arg.samples, p)
        /\ calc.arg.prev = Null => trend = "steady"
        /\ calc.arg.prev # Null =>
             /\ trend = "rising" <=> p - calc.arg.prev[1] > 1
             /\ trend = "falling" <=> calc.arg.prev[1] - p > 1
             /\ trend = "steady" <=> (p - calc.arg.prev[1] \in {0 - 1, 0, 1})
        /\ calc.arg.prev = Some(1010) =>
             /\ MeanIsHalves(calc.arg.samples, 2025) => p = 1013 /\ trend = "rising"
             /\ MeanIsHalves(calc.arg.samples, 2024) => trend = "rising"
             /\ MeanIsHalves(calc.arg.samples, 2022) => trend = "steady"
             /\ MeanIsHalves(calc.arg.samples, 2018) => trend = "steady"
             /\ MeanIsHalves(calc.arg.samples, 2016) => trend = "falling"

\* A day of mean pressure 1011, exactly 1 above the day before, is steady.
C13_Witness ==
  /\ Applied("AggregateDay")
  /\ calc.arg.prev = Some(1010)
  /\ calc.arg.samples = <<1010, 1012>>
  /\ calc.out.pressureTrend = "steady"

\* ------------ C14 ------------
Priority == <<"Stormy", "Snowy", "Rainy", "Foggy", "Cloudy", "Clear">>
RankOf(condition) == CHOOSE i \in 1..Len(Priority) : Priority[i] = condition

\* C14: the condition of a non-empty list of codes is the one of highest
\* priority among the conditions of its codes taken one by one, so it depends
\* on neither their order nor their multiplicity; a thunderstorm code alone is
\* Stormy, and with it the list is Stormy; a list of codes that are all 0 or
\* unknown is Clear.
C14_HighestPriorityWins ==
  Applied("codesToCondition") =>
    LET codes == calc.arg.codes
        each == {codesToCondition(<<codes[i]>>) : i \in 1..Len(codes)}
    IN  /\ calc.out \in each
        /\ \A e \in each : RankOf(calc.out) <= RankOf(e)
        /\ (\E i \in 1..Len(codes) : codes[i] \in {95, 96, 99}) => calc.out = "Stormy"
        /\ (\A i \in 1..Len(codes) : codes[i] \in {0, 4, 100}) => calc.out = "Clear"
        /\ Len(codes) = 1 =>
             /\ codes[1] \in {51, 61, 80} => calc.out = "Rainy"
             /\ codes[1] \in {71, 86} => calc.out = "Snowy"
             /\ codes[1] = 45 => calc.out = "Foggy"
             /\ codes[1] = 2 => calc.out = "Cloudy"

\* A day of light rain, then a thunderstorm, then light rain again is Stormy.
C14_Witness ==
  Applied("codesToCondition") /\ calc.arg.codes = <<61, 95, 61>> /\ calc.out = "Stormy"

\* ------------ C17 ------------
\* The distance of two clock times round the dial is at most w minutes.
WithinOnDial(a, b, w) == \E k \in 0..w : (a + k) % 1440 = b \/ (b + k) % 1440 = a

\* The (peak, anchor) pairs of ts within 90 minutes of each other.
AlignedPairs(ts, args) ==
  {<<i, anchor>> \in (1..Len(ts)) \X {"sunrise", "sunset"} :
     WithinOnDial(ts[i][1] * 60 + ts[i][2], args[anchor][1] * 60 + args[anchor][2], 90)}

\* C17: computeAlignmentBonus is min(20, 10 M + 5 m), M and m the numbers of
\* (major peak, anchor) and (minor peak, anchor) pairs at most 90 minutes
\* apart round the dial.
C17_AlignmentBonus ==
  Applied("computeAlignmentBonus") =>
    LET M == Cardinality(AlignedPairs(calc.arg.majors, calc.arg))
        m == Cardinality(AlignedPairs(calc.arg.minors, calc.arg))
    IN  /\ calc.out = (IF 10 * M + 5 * m < 20 THEN 10 * M + 5 * m ELSE 20)
        /\ calc.out <= 20

\* Sunrise 00:30, sunset 23:30: the major peak at 23:00 is 90 minutes from
\* sunrise across midnight and 30 from sunset and counts twice, the major
\* peak at 22:59 is 91 minutes from sunrise and counts once, and with an
\* aligned minor peak the sum of 35 is capped at 20.
C17_Witness ==
  /\ Applied("computeAlignmentBonus")
  /\ calc.arg = [sunrise |-> <<0, 30>>, sunset |-> <<23, 30>>,
                  majors |-> <<<<23, 0>>, <<22, 59>>>>, minors |-> <<<<2, 0>>, <<12, 0>>>>]
  /\ calc.out = 20

\* ------------ C18 ------------
\* C18: getMoonPhaseName returns one of the eight names; each of the edges
\* 0.03, 0.22, 0.28, 0.47, 0.53, 0.72, 0.78 belongs to the bucket above it,
\* 0.97 is Waning Crescent, and what lies below 0.03 or above 0.97 is New Moon.
C18_PhaseNameEdges ==
  Applied("getMoonPhaseName") =>
    LET p == calc.arg.phase
        in(lo, hi) == lo * (Unit \div 100) <= p /\ p < hi * (Unit \div 100)
    IN  /\ calc.out \in {"New Moon", "Waxing Crescent", "First Quarter", "Waxing Gibbous",
                         "Full Moon", "Waning Gibbous", "Last Quarter", "Waning Crescent"}
        /\ calc.out = "New Moon" <=> (in(0, 3) \/ p > 97 * (Unit \div 100))
        /\ calc.out = "Waxing Crescent" <=> in(3, 22)
        /\ calc.out = "First Quarter" <=> in(22, 28)
        /\ calc.out = "Waxing Gibbous" <=> in(28, 47)
        /\ calc.out = "Full Moon" <=> in(47, 53)
        /\ calc.out = "Waning Gibbous" <=> in(53, 72)
        /\ calc.out = "Last Quarter" <=> in(72, 78)
        /\ calc.out = "Waning Crescent" <=> (in(78, 97) \/ p = 97 * (Unit \div 100))

\* The name of the phase 0.97.
C18_Witness ==
  Applied("getMoonPhaseName") /\ calc.arg.phase = 97 * (Unit \div 100) /\ calc.out = "Waning Crescent"

\* ------------ C19 ------------
\* The hours getSolarTimes computed for the arguments of calc.
HoursOf(arg) == SolarHours(arg.date, arg.lat, arg.lon)

\* C19: for every date, every latitude with |lat| < 66.5 degrees and every
\* longitude, getSolarTimes has sunriseHour < solarNoon < sunsetHour and both
\* sunriseHour and sunsetHour in [0, 24) before the formatter wraps them.
C19_SunriseNoonSunsetInDay_AsClaimed ==
  (Applied("getSolarTimes") /\ Abs(calc.arg.lat) < 66500) =>
    LET hours == HoursOf(calc.arg)
    IN  /\ hours.sunriseHour < hours.solarNoon
        /\ hours.solarNoon < hours.sunsetHour
        /\ 0 <= hours.sunriseHour
        /\ hours.sunsetHour < 24 * Unit

\* ------------ C15 ------------
\* The lengths of the months of the calendar.
MonthLengths == <<31, 28, 31, 30, 31, 30, 31, 31, 30, 31, 30, 31>>
IsLeapYear(year) == year % 4 = 0 /\ (year % 100 # 0 \/ year % 400 = 0)
LengthOfMonth(month, year) ==
  IF month = 2 /\ IsLeapYear(year) THEN 29 ELSE MonthLengths[month]

\* C15: for every month and year the MonthlyForecast of calculateFishingForecast
\* has exactly as many days as the month has (28 for February 2025, 29 for
\* February of a leap year), and their day fields are 1, 2, ... in this order.
C15_OneDayPerCalendarDay ==
  Applied("calculateFishingForecast") =>
    LET n == LengthOfMonth(calc.arg.month, calc.arg.year)
        weatherPart == calculateFishingForecast(calc.arg.month, calc.arg.year, calc.arg.location,
                                                Returned(EmptyMap))
    IN  /\ calc.out.ok
        /\ calc.out.val.month = calc.arg.month
        /\ calc.out.val.year = calc.arg.year
        /\ Len(calc.out.val.days) = n
        /\ \A i \in 1..n : calc.out.val.days[i].day = i
        /\ DOMAIN weatherPart.val.days = 1..n
        /\ \A i \in 1..n : weatherPart.val.days[i].day = i

C15_Witness ==
  /\ Applied("calculateFishingForecast")
  /\ calc.arg.month = 2
  /\ calc.arg.year = 2024
  /\ Len(calc.out.val.days) = 29
  /\ calc.out.val.days[29].day = 29

\* ------------ C16 ------------
InRange(score, hourlyActivity) ==
  /\ score \in 0..100
  /\ Len(hourlyActivity) = 24
  /\ \A i \in 1..24 : hourlyActivity[i] \in 10..100

\* C16: the score of every computed day is a whole number in [0, 100] and its
\* hourlyActivity has exactly 24 whole numbers, each in [10, 100]; in the
\* peak-window variant this holds of the curve the normalization step leaves.
C16_ScoreAndActivityInRange ==
  /\ Applied("calculateFishingForecast") =>
       \A i \in 1..Len(calc.out.val.days) :
         InRange(calc.out.val.days[i].score, calc.out.val.days[i].hourlyActivity)
  /\ Applied("PeakDay") => InRange(calc.out.score, calc.out.hourlyActivity)

\* A day of a high score whose curve the normalization step has rescaled.
C16_Witness ==
  /\ Applied("PeakDay")
  /\ calc.out.score >= 85
  /\ max(PeakHourly(calc.arg.sunrise, calc.arg.sunset, calc.arg.majors, calc.arg.minors)) < 95
  /\ calc.out.hourlyActivity #
       PeakHourly(calc.arg.sunrise, calc.arg.sunset, calc.arg.majors, calc.arg.minors)
  /\ max(calc.out.hourlyActivity) = 100

\* ------------ C20 ------------
\* "HH:MM" with HH in 00..23 and MM in 00..59.
WellFormedTime(t) == t[1] \in 0..23 /\ t[2] \in 0..59
EventsOfType(events, type) == {i \in 1..Len(events) : events[i].type = type}

\* C20: the events of every FishingDay hold a sunrise and a sunset entry, and
\* every sunrise and sunset time getSolarTimes formats has an hour in 00..23
\* and a minute in 00..59, at polar latitudes too.
C20_SunEventsWellFormed ==
  /\ Applied("calculateFishingForecast") =>
       \A d \in 1..Len(calc.out.val.days) :
         LET events == calc.out.val.days[d].events
         IN  /\ EventsOfType(events, "sunrise") # {}
             /\ EventsOfType(events, "sunset") # {}
             /\ \A i \in EventsOfType(events, "sunrise") \cup EventsOfType(events, "sunset") :
                  WellFormedTime(events[i].time)
  /\ Applied("getSolarTimes") =>
       WellFormedTime(calc.out.sunrise) /\ WellFormedTime(calc.out.sunset)

\* A day of midnight sun in a forecast: the hour angle is 12, the sunset hour
\* is 24 or more and is shown as an hour after midnight.
C20_Witness ==
  /\ Applied("calculateFishingForecast")
  /\ calc.arg.location.latitude = 70000
  /\ calc.arg.month = 6
  /\ LET hours == SolarHours(NewDate(calc.arg.year, 5, 21), 70000, calc.arg.location.longitude)
     IN  /\ hours.sunsetHour - hours.solarNoon = 12 * Unit
         /\ hours.sunsetHour >= 24 * Unit
         /\ calc.out.val.days[21].events[2].type = "sunset"
         /\ calc.out.val.days[21].events[2].time = format(hours.sunsetHour)
         /\ calc.out.val.days[21].events[2].time[1] = 0

\* ------------ C21 ------------
\* The position of a cardinal name among the eight sectors, 0 for N.
SectorOf(name) == (CHOOSE k \in 1..8 : Cardinals[k] = name) - 1
\* The component of the sum of the unit vectors of dirs along the middle of
\* sector k.
AlongSector(dirs, k) ==
  SumSeq([i \in 1..Len(dirs) |-> CosDeg(dirs[i])]) * CosDeg(45 * k)
    + SumSeq([i \in 1..Len(dirs) |-> SinDeg(dirs[i])]) * SinDeg(45 * k)
\* A thousandth, for products of two numbers of four decimals.
Thousandth == (Unit * Unit) \div 1000

\* C21: the wind direction of a day is the sector, among the eight of 45
\* degrees around N, NE, E, SE, S, SW, W, NW, that the vector mean of the
\* hourly directions falls in: [0, 90] gives NE, [350, 10] gives N, and every
\* angle in [337.5, 360) is named N.
C21_WindDirectionIsSectorOfVectorMean ==
  /\ Applied("windDirection") =>
       /\ calc.out.windDirection \in {Cardinals[k] : k \in 1..8}
       /\ \A j \in 0..7 :
            AlongSector(calc.arg.dirs, SectorOf(calc.out.windDirection))
              >= AlongSector(calc.arg.dirs, j) - Thousandth
       /\ calc.arg.dirs = <<0, 90>> => calc.out.windDirection = "NE"
       /\ calc.arg.dirs = <<350, 10>> => calc.out.windDirection = "N"
  /\ Applied("degreesToCardinal") =>
       /\ \E k \in 0..8 : /\ Abs(calc.arg.deg - 4500 * k) <= 2250
                          /\ calc.out = Cardinals[(k % 8) + 1]
       /\ calc.arg.deg >= 33750 => calc.out = "N"

C21_Witness ==
  /\ Applied("windDirection")
  /\ calc.arg.dirs = <<350, 10>>
  /\ calc.out.windDirection = "N"

\* ------------ C22 ------------
\* The days of start..n-1 that the map given to fillMissingDays held.
HeldBefore(map, start, n) == {m \in start..(n - 1) : DateStr(m) \in DOMAIN map}
\* The latest day of a non-empty set of days.
LatestOf(days) == CHOOSE m \in days : \A o \in days : o <= m

\* C22: fillMissingDays gives every absent date of start..end, in ascending
\* order, a copy of the value of the nearest earlier date of the range that
\* has one (held before or filled), and the default record where no earlier
\* date of the range has one; it changes no date the map held and adds no
\* date outside start..end.
C22_FillCopiesNearestEarlier ==
  Applied("fillMissingDays") =>
    LET map == calc.arg.map
        start == calc.arg.start
        end == calc.arg.end
        out == calc.out
    IN  /\ DOMAIN out = DOMAIN map \cup {DateStr(n) : n \in start..end}
        /\ \A k \in DOMAIN map : out[k] = map[k]
        /\ \A n \in start..end :
             DateStr(n) \notin DOMAIN map =>
               /\ n > start => out[DateStr(n)] = out[DateStr(n - 1)]
               /\ HeldBefore(map, start, n) # {} =>
                    out[DateStr(n)] = map[DateStr(LatestOf(HeldBefore(map, start, n)))]
               /\ HeldBefore(map, start, n) = {} => out[DateStr(n)] = DefaultWeather

\* The first day of the range gets the default, a later one a copy, and a day
\* before the range holds a value that is not used.
C22_Witness ==
  /\ Applied("fillMissingDays")
  /\ DateStr(calc.arg.start - 1) \in DOMAIN calc.arg.map
  /\ DateStr(calc.arg.start) \notin DOMAIN calc.arg.map
  /\ calc.out[DateStr(calc.arg.start)] = DefaultWeather
  /\ DateStr(calc.arg.start + 1) \in DOMAIN calc.arg.map
  /\ DateStr(calc.arg.end) \notin DOMAIN calc.arg.map
  /\ calc.out[DateStr(calc.arg.end)] # DefaultWeather
  /\ DateStr(calc.arg.end + 1) \notin DOMAIN calc.out

\* ------------ C23 ------------
\* The candidates of the arguments: (kind, minute of the day).
CandidatesOf(arg) ==
  {<<"major", arg.majors[i]>> : i \in 1..Len(arg.majors)}
    \cup {<<"minor", arg.minors[i]>> : i \in 1..Len(arg.minors)}
\* The distance on the dial from a minute of the day to the nearer of sunrise
\* and sunset.
ToTwilight(arg, m) ==
  LET toRise == Abs(m - (arg.sunrise[1] * 60 + arg.sunrise[2]))
      toSet == Abs(m - (arg.sunset[1] * 60 + arg.sunset[2]))
  IN  Minimum(Minimum(toRise, 1440 - toRise), Minimum(toSet, 1440 - toSet))
\* The key of a candidate: aligned before non-aligned, major before minor,
\* smaller distance to twilight, earlier clock time.
KeyOfCandidate(arg, c) ==
  <<IF ToTwilight(arg, c[2]) <= 90 THEN 0 ELSE 1, IF c[1] = "major" THEN 0 ELSE 1,
    ToTwilight(arg, c[2]), c[2]>>
LexLeq(a, b) ==
  \/ a = b
  \/ \E i \in 1..4 : a[i] < b[i] /\ \A j \in 1..(i - 1) : a[j] = b[j]
\* The minute of the day a 12-hour clock reading stands for.
MinuteOf(t) == ((t.hh % 12) + (IF t.ampm = "PM" THEN 12 ELSE 0)) * 60 + t.mm

\* C23: pickPeakActivityWindow reports the window of a candidate that is the
\* least under (aligned first, major first, nearer to twilight, earlier):
\* the chosen peak is aligned whenever some candidate is, even a minor against
\* a major that is not, and the window is the center +/- 60 minutes for a
\* major and +/- 30 for a minor.
C23_PeakWindowOfLeastCandidate ==
  Applied("pickPeakActivityWindow") =>
    \E best \in CandidatesOf(calc.arg) :
      /\ \A c \in CandidatesOf(calc.arg) :
           LexLeq(KeyOfCandidate(calc.arg, best), KeyOfCandidate(calc.arg, c))
      /\ (\E c \in CandidatesOf(calc.arg) : ToTwilight(calc.arg, c[2]) <= 90) =>
           ToTwilight(calc.arg, best[2]) <= 90
      /\ calc.out.kindLabel = (IF best[1] = "major" THEN "Major" ELSE "Minor")
      /\ calc.out.window.label = calc.out.kindLabel
      /\ LET half == IF best[1] = "major" THEN 60 ELSE 30
         IN  /\ MinuteOf(calc.out.window.range.start) = (best[2] - half + 1440) % 1440
             /\ MinuteOf(calc.out.window.range.end) = (best[2] + half) % 1440
             /\ calc.out.window.range.start.hh \in 1..12
             /\ calc.out.window.range.end.hh \in 1..12

\* An aligned minor wins over two majors that are not aligned.
C23_Witness ==
  /\ Applied("pickPeakActivityWindow")
  /\ \A i \in 1..2 : ToTwilight(calc.arg, calc.arg.majors[i]) > 90
  /\ calc.out.kindLabel = "Minor"
  /\ \E i \in 1..Len(calc.arg.minors) :
       /\ ToTwilight(calc.arg, calc.arg.minors[i]) <= 90
       /\ MinuteOf(calc.out.window.range.start) = calc.arg.minors[i] - 30

\* ------------ C24 ------------
\* The hours at which a curve has its greatest value.
PeakHours(curve) == {i \in 1..24 : curve[i] = max(curve)}
\* after is what the normalization step leaves of before on a day of this
\* score, as the claim describes it.
NormalizedAsClaimed(score, before, after) ==
  /\ score >= 85 => max(after) >= 95
  /\ score >= 70 => max(after) >= 80
  /\ PeakHours(after) = PeakHours(before)
  /\ \A i, j \in 1..24 : before[i] < before[j] <=> after[i] < after[j]

\* C24: after the normalization step a day of score 85 or more has a greatest
\* hourly value of at least 95, a day of score 70 or more one of at least 80,
\* and the rescaling keeps the hours of the greatest value and the order of
\* every two hours.
C24_NormalizationLiftsThePeak ==
  /\ Applied("Normalize") =>
       NormalizedAsClaimed(calc.arg.finalScore, calc.arg.hourlyActivity, calc.out)
  /\ Applied("PeakDay") =>
       NormalizedAsClaimed(calc.out.score,
                           PeakHourly(calc.arg.sunrise, calc.arg.sunset, calc.arg.majors, calc.arg.minors),
                           calc.out.hourlyActivity)

\* A day of score 84 whose greatest value 78 is scaled by 85 / 78: the double
\* product falls below 85 and the floor is 84.
C24_Witness ==
  /\ Applied("Normalize")
  /\ calc.arg.finalScore = 84
  /\ max(calc.arg.hourlyActivity) = 78
  /\ max(calc.out) = 84
  /\ calc.arg.hourlyActivity[2] = 77
  /\ calc.out[2] = 83

\* ------------ C25 ------------
\* 50 + phaseImpact * 40, the base score before the flat bonus.
BeforeBonus(phase) == 50 * Unit + 20 * (Cos((4 * Pi * phase) \div Unit) + Unit)
\* The phase is less than 0.05 from new moon (0 or 1) or from full moon (0.5);
\* more than 0.05 from both.
NearNewOrFull(phase) ==
  phase < 500 \/ phase > 9500 \/ (phase > 4500 /\ phase < 5500)
FarFromNewAndFull(phase) ==
  (phase > 500 /\ phase < 4500) \/ (phase > 5500 /\ phase < 9500)

\* C25: the flat bonus of 5 is added to the base score exactly when the phase
\* is within 0.05 of new moon or within 0.05 of full moon, in
\* solunarService.ts and in computeBasePhaseScore of the peak-window variant.
C25_BonusWithinFiveHundredths_AsClaimed ==
  Applied("baseScore") =>
    /\ NearNewOrFull(calc.arg.phase) =>
         /\ calc.out.service = BeforeBonus(calc.arg.phase) + 5 * Unit
         /\ calc.out.peakWindow = BeforeBonus(calc.arg.phase) + 5 * Unit
    /\ FarFromNewAndFull(calc.arg.phase) =>
         /\ calc.out.service = BeforeBonus(calc.arg.phase)
         /\ calc.out.peakWindow = BeforeBonus(calc.arg.phase)

\* ------------ C30 ------------
\* C30: the daily score lies in [50, 100]: the base score lies in [50, 95],
\* the alignment bonus is one of 0, 5, 10, 15, 20, and the score is
\* min(100, floor(base + bonus)).
C30_ScoreAtLeastFifty ==
  /\ Applied("baseScore") =>
       /\ calc.out.service >= 50 * Unit
       /\ calc.out.service <= 95 * Unit
  /\ Applied("computeAlignmentBonus") => calc.out \in {0, 5, 10, 15, 20}
  /\ Applied("calculateFishingForecast") =>
       \A d \in 1..Len(calc.out.val.days) :
         LET day == calc.out.val.days[d]
             bonus == computeAlignmentBonus([sunrise |-> day.events[1].time, sunset |-> day.events[2].time,
                                             majors |-> day.bestTimes,
                                             minors |-> <<day.events[7].time, day.events[8].time>>])
         IN  /\ day.score \in 50..100
             /\ day.score = Minimum(100, (BaseScore(day.moonPhaseValue) + bonus * Unit) \div Unit)

\* A day near full moon with two aligned peaks: base and bonus add up to more
\* than 100 and the score is 100.
C30_Witness ==
  /\ Applied("calculateFishingForecast")
  /\ \E d \in 1..Len(calc.out.val.days) :
       /\ calc.out.val.days[d].score = 100
       /\ BaseScore(calc.out.val.days[d].moonPhaseValue) < 95 * Unit
  /\ \E d \in 1..Len(calc.out.val.days) : calc.out.val.days[d].score < 55


\* ------------ C26 ------------
\* The entries of the weather cache in the store.
WeatherEntries(st) == {k \in DOMAIN st : k.prefix = CACHE_PREFIX}

\* C26 as claimed: when a round whose cleanup and save both reached the
\* storage returns and leaves no call in flight, the store holds at most one
\* weather-cache entry, also when the round ran beside a round for another
\* location.
C26_AtMostOneEntryWhenIdle_AsClaimed ==
  [][(/\ ev' # Null
      /\ ev'[1].type = "return"
      /\ ev'[1].fetched
      /\ ~ev'[1].cleanupThrew
      /\ ~ev'[1].setItemThrew
      /\ \A c \in Callers : pc'[c] = 0)
       => Cardinality(WeatherEntries(store')) <= 1]_vars


\* ------------ C27 ------------
\* Every day of the window of the run holds the gap-fill default.
AllDefault(run) ==
  \A n \in WindowStart(run.today)..WindowEnd(run.today) :
    /\ DateStr(n) \in DOMAIN DailyOf(run)
    /\ DailyOf(run)[DateStr(n)] = DefaultWeather

AllFailed == <<0, 0, 0>>

\* The call that returned last under the key of e was, on the day of the
\* clock, a round whose three fetches failed or a hit on the entry of one.
AfterAllFailedToday(e) ==
  LET prev == last[KeyOf(e)]
  IN  /\ prev.state = "returned"
      /\ prev.day = DayOf(clock)
      /\ prev.daily # Null
      /\ prev.daily[1].got = AllFailed

C28_EveryDayHasWeather_AsClaimed ==
  Applied("dateKey") =>
    \A d \in DOMAIN calc.out : calc.out[d].weather # Null


\* ------------ C29 ------------
Ordered(info) == info.tempHigh >= info.tempLow

\* C29: in every map fetchDailyWeatherCache returns, after a round or from
\* the entry a round saved, and in every monthly map sliced from it, each WeatherInfo has tempHigh >= tempLow:
\* the one aggregated from samples, the one of a day without a finite sample,
\* the one copied into a gap and the default.
C29_HighAtLeastLow ==
  (HasReturned /\ ev[1].daily # Null) =>
    /\ \A k \in DOMAIN DailyOf(ev[1].daily[1]) : Ordered(DailyOf(ev[1].daily[1])[k])
    /\ \A r \in Requests :
         LET monthly == MonthlyWeather(r[1], r[2], ev[1].daily)
         IN  monthly.ok /\ \A k \in DOMAIN monthly.val : Ordered(monthly.val[k])

\* A round has just returned a map that holds the default before its first
\* fetched day, a day aggregated from two samples whose high is above its
\* low, a day without a finite temperature, and a copy of the day before in
\* the gap at the end of the window.
C29_Witness ==
  /\ HasReturned
  /\ ev[1].fetched
  /\ ev[1].daily # Null
  /\ LET daily == DailyOf(ev[1].daily[1])
         today == ev[1].today
     IN  /\ daily[DateStr(WindowStart(today))] = DefaultWeather
         /\ daily[DateStr(today)].tempHigh > daily[DateStr(today)].tempLow
         /\ \E n \in (today + SHORT_TERM_DAYS)..(WindowEnd(today) - 1) :
              /\ daily[DateStr(n)].tempHigh = 0
              /\ daily[DateStr(n)].tempLow = 0
              /\ daily[DateStr(n)].windSpeed # 0
         /\ daily[DateStr(WindowEnd(today))] = daily[DateStr(WindowEnd(today) - 1)]

====
